---- MODULE Spec2Model ----
(***************************************************************************)
(* Model of the Flow EVM / Ethereum MCP servers (src/unnamed/part_001 and  *)
(* src/index.js): tool dispatch behind zod schemas, the makeRpcCall        *)
(* JSON-RPC bridge and the per-tool formatters.                            *)
(*                                                                         *)
(* Strings are sequences of tokens: a token is a one-character string (for *)
(* text the code inspects character by character: addresses, hex data) or  *)
(* a chunk of literal text (a piece of a template literal, an opaque       *)
(* message).  The string a token sequence stands for is the concatenation  *)
(* of its tokens.  JSON values are records tagged by their only field:     *)
(* [str |-> s], [num |-> n], [null |-> TRUE], [undef |-> TRUE],            *)
(* [arr |-> seq], [obj |-> function from keys to JSON values].             *)
(***************************************************************************)
EXTENDS Integers, Sequences, FiniteSets, TLC

VARIABLES server, inv, wire, posts, started, calls

vars == <<server, inv, wire, posts, started, calls>>

(***************************************************************************)
(* Bounds of the model.                                                    *)
(***************************************************************************)
\* Invocations the host issues in one run.
MaxCalls == 2
\* Longest log array a response carries.
MaxLogs == 2
\* Invocations the host has in flight at once.
MaxInFlight == 2

(***************************************************************************)
(* Characters and strings.                                                 *)
(***************************************************************************)
Digits == <<"0", "1", "2", "3", "4", "5", "6", "7", "8", "9">>

DecChars == {Digits[i] : i \in 1..10}

\* The character class [a-fA-F0-9] of every pattern in the schemas.
HexChars ==
    DecChars \cup {"a", "b", "c", "d", "e", "f"} \cup {"A", "B", "C", "D", "E", "F"}

\* String.prototype.toLowerCase on one character (the inputs are ASCII).
ToLowerChar(c) ==
    CASE c = "A" -> "a" [] c = "B" -> "b" [] c = "C" -> "c"
      [] c = "D" -> "d" [] c = "E" -> "e" [] c = "F" -> "f"
      [] c = "X" -> "x" [] OTHER -> c

ToLowerCase(s) == [i \in 1..Len(s) |-> ToLowerChar(s[i])]

\* String.prototype.startsWith.
StartsWith(s, p) == Len(s) >= Len(p) /\ SubSeq(s, 1, Len(p)) = p

\* s occurs in t as a contiguous run of tokens.
Contains(t, s) ==
    \E k \in 0..(Len(t) - Len(s)) : SubSeq(t, k + 1, k + Len(s)) = s

Rep(c, n) == [i \in 1..n |-> c]

(***************************************************************************)
(* JSON values.                                                            *)
(***************************************************************************)
JStr(s) == [str |-> s]

JNum(n) == [num |-> n]

JNull == [null |-> TRUE]

JUndef == [undef |-> TRUE]

JArr(a) == [arr |-> a]

JObj(f) == [obj |-> f]

IsStr(v) == DOMAIN v = {"str"}

IsNum(v) == DOMAIN v = {"num"}

IsNull(v) == DOMAIN v = {"null"}

IsUndef(v) == DOMAIN v = {"undef"}

IsArr(v) == DOMAIN v = {"arr"}

IsObj(v) == DOMAIN v = {"obj"}

\* Property read o.k on a JSON object: undefined when the key is absent.
Field(o, k) == IF k \in DOMAIN o.obj THEN o.obj[k] ELSE JUndef

(***************************************************************************)
(* The schemas (zod) of the tools' arguments.                              *)
(***************************************************************************)
AddrHexLen == 40

TopicHexLen == 64

\* A faulty IsAddress, the pattern without its length (/^0x[a-fA-F0-9]*$/):
\* C1 fails with it.
IsAddressOfAnyLength(s) ==
    /\ Len(s) >= 2
    /\ s[1] = "0" /\ s[2] = "x"
    /\ \A i \in 3..Len(s) : s[i] \in HexChars

\* /^0x[a-fA-F0-9]{40}$/
IsAddress(s) ==
    /\ Len(s) = 2 + AddrHexLen
    /\ s[1] = "0" /\ s[2] = "x"
    /\ \A i \in 3..Len(s) : s[i] \in HexChars

\* /^0x[a-fA-F0-9]{64}$/
IsTopic(s) ==
    /\ Len(s) = 2 + TopicHexLen
    /\ s[1] = "0" /\ s[2] = "x"
    /\ \A i \in 3..Len(s) : s[i] \in HexChars

\* /^0x[a-fA-F0-9]+$/
IsHexPlus(s) ==
    /\ Len(s) >= 3
    /\ s[1] = "0" /\ s[2] = "x"
    /\ \A i \in 3..Len(s) : s[i] \in HexChars

\* /^0x[a-fA-F0-9]*$/
IsHexStar(s) ==
    /\ Len(s) >= 2
    /\ s[1] = "0" /\ s[2] = "x"
    /\ \A i \in 3..Len(s) : s[i] \in HexChars

Matches(p, s) ==
    CASE p = "addr" -> IsAddress(s)
      [] p = "topic" -> IsTopic(s)
      [] p = "hexplus" -> IsHexPlus(s)
      [] p = "hexstar" -> IsHexStar(s)

ZString == [z |-> "string"]

ZRegex(p) == [z |-> "regex", p |-> p]

ZNull == [z |-> "null"]

ZOptional(S) == [z |-> "optional", of |-> S]

ZDefault(S, d) == [z |-> "default", of |-> S, dflt |-> d]

ZArray(S) == [z |-> "array", of |-> S]

ZUnion(alts) == [z |-> "union", alts |-> alts]

ZObject(shape) == [z |-> "object", shape |-> shape]

ZFail == [ok |-> FALSE]

ZOk(d) == [ok |-> TRUE, data |-> d]

\* An object of parsed fields: fails when a field fails; the keys parsed to
\* undefined are left out.
ZObjectOf(parsed) ==
    IF \E k \in DOMAIN parsed : ~parsed[k].ok THEN ZFail
    ELSE ZOk(JObj([k \in {x \in DOMAIN parsed : ~IsUndef(parsed[x].data)} |->
                    parsed[k].data]))

\* An array of parsed elements: fails when an element fails.
ZArrayOf(parsed) ==
    IF \E i \in 1..Len(parsed) : ~parsed[i].ok THEN ZFail
    ELSE ZOk(JArr([i \in 1..Len(parsed) |-> parsed[i].data]))

\* A union: the first alternative that parses.
ZFirstOf(parsed) ==
    IF \A i \in 1..Len(parsed) : ~parsed[i].ok THEN ZFail
    ELSE parsed[CHOOSE i \in 1..Len(parsed) :
                    parsed[i].ok /\ \A j \in 1..(i - 1) : ~parsed[j].ok]

\* schema.safeParse(v): [ok |-> FALSE], or [ok |-> TRUE, data |-> the parsed
\* value] (defaults filled in, unknown object keys stripped).
RECURSIVE ZParse(_, _)
ZParse(S, v) ==
    CASE S.z = "string" -> IF IsStr(v) THEN ZOk(v) ELSE ZFail
      [] S.z = "regex" ->
            IF IsStr(v) /\ Matches(S.p, v.str) THEN ZOk(v) ELSE ZFail
      [] S.z = "null" -> IF IsNull(v) THEN ZOk(v) ELSE ZFail
      [] S.z = "optional" -> IF IsUndef(v) THEN ZOk(v) ELSE ZParse(S.of, v)
      [] S.z = "default" ->
            IF IsUndef(v) THEN ZParse(S.of, S.dflt) ELSE ZParse(S.of, v)
      [] S.z = "array" ->
            IF ~IsArr(v) THEN ZFail
            ELSE ZArrayOf([i \in 1..Len(v.arr) |-> ZParse(S.of, v.arr[i])])
      [] S.z = "union" ->
            ZFirstOf([i \in 1..Len(S.alts) |-> ZParse(S.alts[i], v)])
      [] S.z = "object" ->
            IF ~IsObj(v) THEN ZFail
            ELSE ZObjectOf([k \in DOMAIN S.shape |-> ZParse(S.shape[k], Field(v, k))])

Latest == <<"latest">>

NoShape == [k \in {} |-> ZString]

BlockParameterSchema == ZDefault(ZString, JStr(Latest))

AddressAndBlockShape ==
    [address |-> ZRegex("addr"), blockParameter |-> BlockParameterSchema]

CallTransactionSchema ==
    ZObject([from |-> ZOptional(ZRegex("addr")),
             to |-> ZRegex("addr"),
             gas |-> ZOptional(ZRegex("hexplus")),
             gasPrice |-> ZOptional(ZRegex("hexplus")),
             value |-> ZOptional(ZRegex("hexplus")),
             data |-> ZRegex("hexstar")])

SendTransactionSchema ==
    ZObject([from |-> ZRegex("addr"),
             to |-> ZOptional(ZRegex("addr")),
             gas |-> ZOptional(ZRegex("hexplus")),
             gasPrice |-> ZOptional(ZRegex("hexplus")),
             value |-> ZOptional(ZRegex("hexplus")),
             data |-> ZOptional(ZRegex("hexstar")),
             nonce |-> ZOptional(ZRegex("hexplus"))])

FilterSchema ==
    ZObject([fromBlock |-> ZOptional(ZString),
             toBlock |-> ZOptional(ZString),
             address |-> ZOptional(ZUnion(<<ZRegex("addr"), ZArray(ZRegex("addr"))>>)),
             topics |-> ZOptional(ZArray(ZUnion(
                 <<ZRegex("topic"), ZArray(ZRegex("topic")), ZNull>>)))])

FlowTools ==
    {"flow_getNetworkInfo", "flow_getCode", "flow_chainId", "flow_gasPrice",
     "flow_getBalance", "flow_call", "flow_getLogs", "flow_sendRawTransaction",
     "flow_blockNumber", "flow_checkCOA"}

EthTools ==
    {"eth_getCode", "eth_gasPrice", "eth_getBalance", "eth_call", "eth_getLogs",
     "eth_sendTransaction"}

Servers == {"flow", "eth"}

\* The tools each server registers.
Registry(s) == IF s = "flow" THEN FlowTools ELSE EthTools

\* The third argument of server.tool: the shape of the tool's arguments.
ToolShape(tool) ==
    CASE tool \in {"flow_getCode", "flow_getBalance", "eth_getCode", "eth_getBalance"} ->
            AddressAndBlockShape
      [] tool \in {"flow_call", "eth_call"} ->
            [transaction |-> CallTransactionSchema,
             blockParameter |-> BlockParameterSchema]
      [] tool \in {"flow_getLogs", "eth_getLogs"} -> [filter |-> FilterSchema]
      [] tool = "eth_sendTransaction" -> [transaction |-> SendTransactionSchema]
      [] tool = "flow_sendRawTransaction" ->
            [signedTransactionData |-> ZRegex("hexplus")]
      [] tool = "flow_checkCOA" -> [address |-> ZRegex("addr")]
      [] OTHER -> NoShape

\* The arguments as the handler receives them, when the bundle is accepted.
Validate(tool, raw) == ZParse(ZObject(ToolShape(tool)), raw)

(***************************************************************************)
(* Numbers.  The code's numbers are IEEE-754 doubles; the values here go   *)
(* far beyond 32-bit integers, so a natural number is kept as             *)
(* its decimal digits, least significant first (Nat10; <<>> is zero), or   *)
(* as its bits, most significant first, and a finite double is             *)
(* [mant |-> bits, exp |-> e, neg |-> sign], standing for mant * 2^e, or   *)
(* its negative when neg, with mant below 2^53 (<<>> is zero, -0 when      *)
(* neg).  NaN is [nan |-> TRUE]; Infinity is [inf |-> TRUE, neg |-> FALSE] *)
(* and -Infinity the same with neg.                                        *)
(***************************************************************************)
\* Bits of a double's significand.
MantBits == 53

\* The largest exponent of a finite double with a significand of MantBits
\* bits: all of them are below 2^1024.
MaxExp == 971

NaN == [nan |-> TRUE]

IsNaN(x) == DOMAIN x = {"nan"}

Infinity == [inf |-> TRUE, neg |-> FALSE]

IsInf(x) == "inf" \in DOMAIN x

\* The double mant * 2^e, not negative.
Dbl(m, e) == [mant |-> m, exp |-> e, neg |-> FALSE]

HexVal(c) ==
    CASE c \in DecChars -> (CHOOSE i \in 1..10 : Digits[i] = c) - 1
      [] c \in {"a", "A"} -> 10 [] c \in {"b", "B"} -> 11
      [] c \in {"c", "C"} -> 12 [] c \in {"d", "D"} -> 13
      [] c \in {"e", "E"} -> 14 [] c \in {"f", "F"} -> 15

\* The bits of a run of hex digits, most significant first, leading zeros kept.
BitsOfHex(h) ==
    [i \in 1..(4 * Len(h)) |->
        (HexVal(h[((i - 1) \div 4) + 1])
            \div (CASE i % 4 = 1 -> 8 [] i % 4 = 2 -> 4 [] i % 4 = 3 -> 2 [] i % 4 = 0 -> 1)) % 2]

StripZeroBits(b) ==
    IF \A i \in 1..Len(b) : b[i] = 0 THEN <<>>
    ELSE SubSeq(b, CHOOSE i \in 1..Len(b) : b[i] = 1 /\ \A j \in 1..(i - 1) : b[j] = 0,
                Len(b))

\* b + 1 on bits (most significant first).
IncBits(b) ==
    LET zeros == {i \in 1..Len(b) : b[i] = 0}
    IN  IF zeros = {} THEN <<1>> \o [i \in 1..Len(b) |-> 0]
        ELSE LET j == CHOOSE i \in zeros : \A k \in zeros : k <= i
             IN  [i \in 1..Len(b) |-> IF i < j THEN b[i] ELSE IF i = j THEN 1 ELSE 0]

\* Round-to-nearest, ties-to-even, of the natural number with bits b (no
\* leading zero) and a fraction that is non-zero iff sticky: the double
\* mant * 2^exp nearest to it, Infinity when that is 2^1024 or more.
RoundBits(b, sticky) ==
    IF Len(b) <= MantBits THEN Dbl(b, 0)
    ELSE LET top == SubSeq(b, 1, MantBits)
             rb == b[MantBits + 1]
             st == sticky \/ \E i \in (MantBits + 2)..Len(b) : b[i] = 1
             up == rb = 1 /\ (st \/ top[MantBits] = 1)
             m == IF up THEN IncBits(top) ELSE top
         IN  IF Len(m) > MantBits
             THEN (IF Len(b) - MantBits + 1 > MaxExp THEN Infinity
                   ELSE Dbl(SubSeq(m, 1, MantBits), Len(b) - MantBits + 1))
             ELSE (IF Len(b) - MantBits > MaxExp THEN Infinity
                   ELSE Dbl(m, Len(b) - MantBits))

\* 2 * a + bit on decimal digits: no carry runs further than one digit.
TwicePlus(a, bit) ==
    IF a = <<>> THEN (IF bit = 1 THEN <<1>> ELSE <<>>)
    ELSE LET n == Len(a)
             d(i) == IF i = 1 THEN ((2 * a[1]) % 10) + bit
                     ELSE IF i <= n THEN ((2 * a[i]) % 10) + (IF a[i - 1] >= 5 THEN 1 ELSE 0)
                     ELSE 1
         IN  [i \in 1..(IF a[n] >= 5 THEN n + 1 ELSE n) |-> d(i)] \o <<>>

\* a \div 2 on decimal digits.
Halve(a) ==
    IF a = <<>> THEN <<>>
    ELSE LET n == Len(a)
             d(i) == (a[i] + (IF i < n /\ a[i + 1] % 2 = 1 THEN 10 ELSE 0)) \div 2
         IN  [i \in 1..(IF a[n] = 1 THEN n - 1 ELSE n) |-> d(i)] \o <<>>

\* a * 2^k on decimal digits: four doublings at a step, a long shift in two
\* halves.
RECURSIVE ShiftLeft(_, _)
ShiftLeft(a, k) ==
    IF a = <<>> THEN a
    ELSE IF k > 8 THEN ShiftLeft(ShiftLeft(a, k \div 2), k - (k \div 2))
    ELSE IF k >= 4
    THEN ShiftLeft(TwicePlus(TwicePlus(TwicePlus(TwicePlus(a, 0), 0), 0), 0), k - 4)
    ELSE IF k > 0 THEN ShiftLeft(TwicePlus(a, 0), k - 1)
    ELSE a

\* a \div 2^k on decimal digits, with the last bit shifted out: a long shift
\* in two halves.
RECURSIVE ShiftRight(_, _, _)
ShiftRight(a, k, last) ==
    IF k = 0 THEN [q |-> a, last |-> last]
    ELSE IF a = <<>> THEN [q |-> a, last |-> 0]
    ELSE IF k > 8 THEN ShiftRight(ShiftRight(a, k \div 2, 0).q, k - (k \div 2), 0)
    ELSE IF k > 4 THEN ShiftRight(Halve(Halve(Halve(Halve(a)))), k - 4, 0)
    ELSE ShiftRight(Halve(a), k - 1, IF a[1] % 2 = 1 THEN 1 ELSE 0)

\* 16 * acc + the four bits b[i..i+3], folded over the bits of b from i on
\* (the length of b is a multiple of four): a long run in two halves.
RECURSIVE NatOfNibbles(_, _, _)
NatOfNibbles(b, i, acc) ==
    IF i > Len(b) THEN acc
    ELSE IF Len(b) - i >= 32
    THEN LET high == NatOfNibbles(SubSeq(b, 1, i + 15), i, acc)
         IN  IF high = <<>> THEN NatOfNibbles(b, i + 16, <<>>)
             ELSE NatOfNibbles(b, i + 16, high)
    ELSE IF acc = <<>> /\ b[i] + b[i + 1] + b[i + 2] + b[i + 3] = 0
    THEN NatOfNibbles(b, i + 4, acc)
    ELSE NatOfNibbles(b, i + 4,
            TwicePlus(TwicePlus(TwicePlus(TwicePlus(acc, b[i]), b[i + 1]), b[i + 2]),
                      b[i + 3]))

\* The natural number with bits b (most significant first), then k zero bits.
NatOfBits(b, k) ==
    LET pad == (4 - (Len(b) % 4)) % 4
    IN  ShiftLeft(NatOfNibbles([i \in 1..pad |-> 0] \o b, 1, <<>>), k)

\* The bits of a, most significant first, four at a step (leading zeros left).
RECURSIVE NibblesOfNat(_, _)
NibblesOfNat(a, acc) ==
    IF a = <<>> THEN acc
    ELSE LET a1 == Halve(a)
             a2 == Halve(a1)
             a3 == Halve(a2)
             bit(x) == IF x # <<>> /\ x[1] % 2 = 1 THEN 1 ELSE 0
         IN  NibblesOfNat(Halve(a3), <<bit(a3), bit(a2), bit(a1), bit(a)>> \o acc)

BitsOfNat(a) == StripZeroBits(NibblesOfNat(a, <<>>))

\* a + b on decimal digits from digit i on with a carry, four digits at a
\* step: the w low digits of the step's sum s, then the rest with what is
\* left of s as the carry.
RECURSIVE AddFrom(_, _, _, _)
AddBlock(a, b, i, w, s) ==
    [j \in 1..w |-> (s \div <<1, 10, 100, 1000>>[j]) % 10]
    \o AddFrom(a, b, i + w, s \div <<10, 100, 1000, 10000>>[w])

AddFrom(a, b, i, carry) ==
    IF i > Len(a) /\ i > Len(b)
    THEN (IF carry = 1 THEN <<1>> ELSE <<>>)
    ELSE AddBlock(a, b, i,
            Cardinality({k \in i..(i + 3) : k <= Len(a) \/ k <= Len(b)}),
            carry
            + (IF i <= Len(a) THEN a[i] ELSE 0) + (IF i <= Len(b) THEN b[i] ELSE 0)
            + 10 * ((IF i + 1 <= Len(a) THEN a[i + 1] ELSE 0)
                    + (IF i + 1 <= Len(b) THEN b[i + 1] ELSE 0))
            + 100 * ((IF i + 2 <= Len(a) THEN a[i + 2] ELSE 0)
                     + (IF i + 2 <= Len(b) THEN b[i + 2] ELSE 0))
            + 1000 * ((IF i + 3 <= Len(a) THEN a[i + 3] ELSE 0)
                      + (IF i + 3 <= Len(b) THEN b[i + 3] ELSE 0)))

Add(a, b) == AddFrom(a, b, 1, 0)

\* a <= b on decimal digits without leading zeros.
Leq(a, b) ==
    \/ Len(a) < Len(b)
    \/ /\ Len(a) = Len(b)
       /\ LET diff == {i \in 1..Len(a) : a[i] # b[i]}
          IN  diff = {} \/ LET t == CHOOSE i \in diff : \A j \in diff : j <= i
                           IN  a[t] < b[t]

\* The exact integer value of a double with exp >= 0.
IntValue(x) == NatOfBits(x.mant, x.exp)

\* The decimal digits of a as text, most significant first ("0" for zero).
DigitText(a) ==
    IF a = <<>> THEN <<"0">>
    ELSE [i \in 1..Len(a) |-> Digits[a[Len(a) + 1 - i] + 1]]

\* The decimal text of a small natural number (an array length, an index).
RECURSIVE NatDigits(_)
NatDigits(n) == IF n < 10 THEN <<n>> ELSE <<n % 10>> \o NatDigits(n \div 10)

IntText(n) == DigitText(IF n = 0 THEN <<>> ELSE NatDigits(n))

\* The longest run of hex digits at the start of s.
HexPrefixLen(s) ==
    CHOOSE k \in 0..Len(s) :
        /\ \A i \in 1..k : s[i] \in HexChars
        /\ k < Len(s) => s[k + 1] \notin HexChars

\* parseInt(s, 16): leading white space is skipped, then comes an optional
\* sign, an optional 0x or 0X, and the longest run of hex digits; NaN when
\* there is none; the value is rounded to the nearest double (Infinity from
\* 2^1024 - 2^970 on) and negated after a minus sign (-0 for a run of
\* zeros).  White space is space, tab, line feed, carriage return, form
\* feed, then U+000B, U+00A0, U+1680 and U+FEFF as the characters they are,
\* and the tokens that stand for U+2000 to U+200A, U+2028, U+2029, U+202F,
\* U+205F and U+3000, which a string of this module cannot hold.
ParseInt16(s) ==
    LET white == {" ", "\t", "\n", "\r", "\f",
                  "", " ", " ", "﻿",
                  "\\u2000", "\\u2001", "\\u2002", "\\u2003", "\\u2004", "\\u2005", "\\u2006", "\\u2007",
                  "\\u2008", "\\u2009", "\\u200a", "\\u2028", "\\u2029", "\\u202f", "\\u205f", "\\u3000"}
        start == CHOOSE j \in 1..(Len(s) + 1) :
                    /\ \A i \in 1..(j - 1) : s[i] \in white
                    /\ j <= Len(s) => s[j] \notin white
        signed == start <= Len(s) /\ s[start] \in {"+", "-"}
        t == SubSeq(s, IF signed THEN start + 1 ELSE start, Len(s))
        body == IF Len(t) >= 2 /\ t[1] = "0" /\ t[2] \in {"x", "X"}
                THEN SubSeq(t, 3, Len(t)) ELSE t
        k == HexPrefixLen(body)
    IN  IF k = 0 THEN NaN
        ELSE [RoundBits(StripZeroBits(BitsOfHex(SubSeq(body, 1, k))), FALSE)
                EXCEPT !.neg = signed /\ s[start] = "-"]

\* x / 10^k in double arithmetic (10^9 and 10^18 are doubles): the exact
\* quotient, rounded to nearest, ties to even, with the sign of x.
DivPow10(x, k) ==
    IF IsNaN(x) THEN NaN
    ELSE IF IsInf(x) THEN x
    ELSE IF x.mant = <<>> THEN x
    ELSE LET t == MantBits + 1 - Len(x.mant) + 4 * k
             n == NatOfBits(x.mant, t)
             q == SubSeq(n, k + 1, Len(n))
             sticky == \E i \in 1..k : n[i] # 0
             r == RoundBits(BitsOfNat(q), sticky)
         IN  [mant |-> r.mant, exp |-> r.exp + x.exp - t, neg |-> x.neg]

\* 4 * c lies in the interval of the reals that round to the double v: from
\* v4 - l4 to v4 + h4 (all times four), ends included iff the significand
\* is even.
InInterval(c, v4, l4, h4, even) ==
    LET c4 == ShiftLeft(c, 2)
    IN  IF even THEN Leq(v4, Add(c4, l4)) /\ Leq(c4, Add(v4, h4))
        ELSE ~Leq(Add(c4, l4), v4) /\ ~Leq(Add(v4, h4), c4)

\* Of the candidates d <= v <= u in the interval, the one nearer to v (v2 is
\* 2 * v); of two equally near, the one with the even last digit.
Nearer(d, u, dIn, uIn, v2, lastDigit) ==
    IF ~uIn THEN d
    ELSE IF ~dIn THEN u
    ELSE IF Add(d, u) = v2 THEN (IF lastDigit % 2 = 0 THEN d ELSE u)
    ELSE IF Leq(v2, Add(d, u)) THEN d ELSE u

\* The first k from which a k-digit decimal lies in the interval, and the
\* decimal: d is v with all but its k leading digits set to zero, u the next
\* k-digit decimal (d and a power of ten).
RECURSIVE ShortestFrom(_, _, _, _, _, _)
ShortestFrom(v, v4, l4, h4, even, k) ==
    LET d == [i \in 1..Len(v) |-> IF i <= Len(v) - k THEN 0 ELSE v[i]]
        u == Add(d, [i \in 1..(Len(v) - k + 1) |-> IF i = Len(v) - k + 1 THEN 1 ELSE 0])
        dIn == InInterval(d, v4, l4, h4, even)
        uIn == InInterval(u, v4, l4, h4, even)
    IN  IF ~dIn /\ ~uIn THEN ShortestFrom(v, v4, l4, h4, even, k + 1)
        ELSE Nearer(d, u, dIn, uIn, ShiftLeft(v, 1), v[Len(v) - k + 1])

\* The shortest decimal that rounds to the integer v, given four times the
\* half gaps above (h4) and below (l4) it.
ShortestOf(v, h4, l4, even) == ShortestFrom(v, ShiftLeft(v, 2), l4, h4, even, 1)

\* The shortest decimal integer that reads back as the double x (exp > 0, a
\* 53-bit significand): the digits Number::toString prints.  Half the gap to
\* the next double is 2^(exp-1); to the one before it is half of that when
\* the significand is a power of two.
Shortest(x) ==
    ShortestOf(IntValue(x),
               ShiftLeft(<<1>>, x.exp + 1),
               IF \A i \in 2..Len(x.mant) : x.mant[i] = 0
               THEN ShiftLeft(<<1>>, x.exp) ELSE ShiftLeft(<<1>>, x.exp + 1),
               x.mant[Len(x.mant)] = 0)

\* d.ddde+N for the integer c >= 10^21.
ExponentText(c) ==
    LET n == Len(c)
        low == CHOOSE i \in 1..n : c[i] # 0 /\ \A j \in 1..(i - 1) : c[j] = 0
        sig == [i \in 1..(n - low + 1) |-> Digits[c[n + 1 - i] + 1]]
    IN  (IF Len(sig) = 1 THEN sig ELSE <<sig[1], ".">> \o Tail(sig))
        \o <<"e", "+">> \o IntText(n - 1)

\* Digits of 10^21, from which Number::toString and toFixed turn to the
\* exponent notation.
ExpNotationDigits == 22

\* The digits Number::toString prints for an integer-valued double.
IntegerText(c) == IF Len(c) < ExpNotationDigits THEN DigitText(c) ELSE ExponentText(c)

\* String(x), `${x}`: for NaN, the infinities and the integers parseInt
\* returns; a minus sign before a negative one, none before -0.
NumToString(x) ==
    IF IsNaN(x) THEN <<"NaN">>
    ELSE IF IsInf(x) THEN (IF x.neg THEN <<"-">> ELSE <<>>) \o <<"Infinity">>
    ELSE (IF x.neg /\ x.mant # <<>> THEN <<"-">> ELSE <<>>)
         \o (IF x.exp = 0 THEN DigitText(IntValue(x)) ELSE IntegerText(Shortest(x)))

\* n as text with a point before its last f digits.
PointText(n, f, len) ==
    IF f = 0 THEN DigitText(n)
    ELSE [i \in 1..(len + 1) |->
            IF i = len - f + 1 THEN "."
            ELSE LET j == IF i <= len - f THEN len + 1 - i ELSE len + 2 - i
                 IN  IF j <= Len(n) THEN Digits[n[j] + 1] ELSE "0"]

\* The integer nearest to a / 2^k, the larger of two (r is ShiftRight's).
HalfUp(r) == IF r.last = 1 THEN Add(r.q, <<1>>) ELSE r.q

\* The integer nearest to m * 2^e * 10^f, the larger of two.
Scaled(m, e, f) ==
    IF m = <<>> THEN <<>>
    ELSE IF e >= 0 THEN ShiftLeft([i \in 1..f |-> 0] \o m, e)
    ELSE HalfUp(ShiftRight([i \in 1..f |-> 0] \o m, 0 - e, 0))

\* n with at least one digit before the point.
FixedText(n, f) == PointText(n, f, IF Len(n) > f THEN Len(n) ELSE f + 1)

\* x.toFixed(f): for x below zero a minus sign and (-x).toFixed(f); else the
\* integer n nearest to x * 10^f (the larger of two), with a point before
\* its last f digits; String(x) from 10^21 on and for the infinities.
ToFixed(x, f) ==
    IF IsNaN(x) THEN <<"NaN">>
    ELSE IF IsInf(x) THEN NumToString(x)
    ELSE IF x.exp > 0 /\ Len(IntValue(x)) >= ExpNotationDigits THEN NumToString(x)
    ELSE (IF x.neg /\ x.mant # <<>> THEN <<"-">> ELSE <<>>)
         \o FixedText(Scaled(NatOfBits(x.mant, 0), x.exp, f), f)

(***************************************************************************)
(* JavaScript conversions the handlers apply to JSON values.               *)
(***************************************************************************)
\* sep-joined concatenation of a sequence of strings.
RECURSIVE Join(_, _)
Join(parts, sep) ==
    IF parts = <<>> THEN <<>>
    ELSE IF Len(parts) = 1 THEN parts[1]
    ELSE parts[1] \o sep \o Join(Tail(parts), sep)

\* An Error instance with the given message, thrown.
Throw(msg) == [throw |-> [message |-> msg]]

Throws(r) == "throw" \in DOMAIN r

\* ToBoolean(v).
Truthy(v) ==
    CASE IsStr(v) -> v.str # <<>>
      [] IsNum(v) -> v.num # 0
      [] IsNull(v) -> FALSE
      [] IsUndef(v) -> FALSE
      [] OTHER -> TRUE

RECURSIVE JsToString(_)
\* Array.prototype.join(sep): [ret |-> the text], or what the conversion of
\* an element throws, the first in the array's order; null and undefined
\* elements give the empty string.
JsJoin(a, sep) ==
    LET parts == [i \in 1..Len(a) |->
                    IF IsNull(a[i]) \/ IsUndef(a[i]) THEN [ret |-> <<>>]
                    ELSE JsToString(a[i])]
        bad == {i \in 1..Len(a) : Throws(parts[i])}
    IN  IF bad # {} THEN parts[CHOOSE i \in bad : \A j \in bad : i <= j]
        ELSE [ret |-> Join([i \in 1..Len(a) |-> parts[i].ret], sep)]

\* String(v), as a template literal and parseInt apply it: [ret |-> the
\* text], or the TypeError of an object that yields no primitive.  An object
\* read from JSON has no callable property of its own, so one with a key
\* "toString" hides Object.prototype.toString, and valueOf returns the
\* object itself (the wording is the engine's).
JsToString(v) ==
    CASE IsStr(v) -> [ret |-> v.str]
      [] IsNum(v) -> [ret |-> IntText(v.num)]
      [] IsNull(v) -> [ret |-> <<"null">>]
      [] IsUndef(v) -> [ret |-> <<"undefined">>]
      [] IsObj(v) ->
            IF "toString" \in DOMAIN v.obj
            THEN Throw(<<"Cannot convert object to primitive value">>)
            ELSE [ret |-> <<"[object Object]">>]
      [] IsArr(v) -> JsJoin(v.arr, <<",">>)

\* A template literal with the literal texts quasis around the substitutions
\* subs, each already converted ([ret |-> its text] or what its evaluation
\* or conversion threw): [ret |-> the text], or the first throw in order.
Template(quasis, subs) ==
    LET bad == {i \in 1..Len(subs) : Throws(subs[i])}
    IN  IF bad # {} THEN subs[CHOOSE i \in bad : \A j \in bad : i <= j]
        ELSE [ret |-> quasis[1]
                        \o Join([i \in 1..Len(subs) |-> subs[i].ret \o quasis[i + 1]],
                                <<>>)]

\* The TypeError of a property read on null or undefined (the wording is the
\* engine's).
CannotRead(v, k) ==
    Throw(<<"Cannot read properties of ">> \o JsToString(v).ret \o <<" (reading '", k, "')">>)

\* v.k: [ret |-> value], or the TypeError thrown on null and undefined.
\* Strings and numbers have none of the properties read here but length.
Prop(v, k) ==
    CASE IsNull(v) \/ IsUndef(v) -> CannotRead(v, k)
      [] IsObj(v) -> [ret |-> Field(v, k)]
      [] IsArr(v) /\ k = "length" -> [ret |-> JNum(Len(v.arr))]
      [] IsStr(v) /\ k = "length" -> [ret |-> JNum(Len(v.str))]
      [] OTHER -> [ret |-> JUndef]

\* A faulty conversion, parseInt(v, 10), which stops at the x of 0x: C10
\* fails with it.
ParseIntRadix10(v) ==
    IF Throws(JsToString(v)) THEN JsToString(v)
    ELSE [ret |-> IF JsToString(v).ret # <<>> /\ JsToString(v).ret[1] = "0"
                  THEN Dbl(<<>>, 0) ELSE NaN]

\* parseInt(v, 16): [ret |-> the number], or what String(v) throws.
ParseInt(v) ==
    IF Throws(JsToString(v)) THEN JsToString(v)
    ELSE [ret |-> ParseInt16(JsToString(v).ret)]

(***************************************************************************)
(* Network configuration.                                                  *)
(***************************************************************************)
SELECTED_NETWORK == "testnet"

FLOW_NETWORKS ==
    [mainnet |-> [name |-> <<"Flow EVM Mainnet">>,
                  rpcUrl |-> <<"https://mainnet.evm.nodes.onflow.org">>,
                  chainId |-> 747,
                  blockExplorer |-> <<"https://evm.flowscan.io">>,
                  currency |-> <<"FLOW">>],
     testnet |-> [name |-> <<"Flow EVM Testnet">>,
                  rpcUrl |-> <<"https://testnet.evm.nodes.onflow.org">>,
                  chainId |-> 545,
                  blockExplorer |-> <<"https://evm-testnet.flowscan.io">>,
                  currency |-> <<"FLOW">>]]

NETWORK_CONFIG == FLOW_NETWORKS[SELECTED_NETWORK]

ETH_RPC_URL == <<"https://eth.llamarpc.com">>

\* The endpoint each server posts to.
RpcUrl(s) == IF s = "flow" THEN NETWORK_CONFIG.rpcUrl ELSE ETH_RPC_URL

(***************************************************************************)
(* makeRpcCall.                                                            *)
(***************************************************************************)
LocalTools == {"flow_getNetworkInfo", "flow_checkCOA"}

\* The JSON-RPC method each handler passes to makeRpcCall.
RpcMethod(tool) ==
    CASE tool \in {"flow_getCode", "eth_getCode"} -> "eth_getCode"
      [] tool = "flow_chainId" -> "eth_chainId"
      [] tool \in {"flow_gasPrice", "eth_gasPrice"} -> "eth_gasPrice"
      [] tool \in {"flow_getBalance", "eth_getBalance"} -> "eth_getBalance"
      [] tool \in {"flow_call", "eth_call"} -> "eth_call"
      [] tool \in {"flow_getLogs", "eth_getLogs"} -> "eth_getLogs"
      [] tool = "flow_sendRawTransaction" -> "eth_sendRawTransaction"
      [] tool = "eth_sendTransaction" -> "eth_sendTransaction"
      [] tool = "flow_blockNumber" -> "eth_blockNumber"

\* The params each handler passes to makeRpcCall (args is the parsed bundle).
RpcParams(tool, args) ==
    CASE tool \in {"flow_getCode", "eth_getCode", "flow_getBalance", "eth_getBalance"} ->
            <<Field(args, "address"), Field(args, "blockParameter")>>
      [] tool \in {"flow_call", "eth_call"} ->
            <<Field(args, "transaction"), Field(args, "blockParameter")>>
      [] tool \in {"flow_getLogs", "eth_getLogs"} -> <<Field(args, "filter")>>
      [] tool = "flow_sendRawTransaction" -> <<Field(args, "signedTransactionData")>>
      [] tool = "eth_sendTransaction" -> <<Field(args, "transaction")>>
      [] OTHER -> <<>>

\* The body makeRpcCall posts.
RpcRequest(method, params) ==
    [jsonrpc |-> "2.0", id |-> 1, method |-> method, params |-> params]

\* An HTTP outcome: the POST fails with an Error, or answers with a body.
HttpFail(msg) == [fail |-> msg]

HttpData(body) == [data |-> body]

IsFail(http) == "fail" \in DOMAIN http

\* A faulty makeRpcCall that returns a result that is there without looking
\* at the error: C2 fails with it.
MakeRpcCallResultFirst(http) ==
    IF IsFail(http) THEN Throw(http.fail)
    ELSE LET res == Prop(http.data, "result")
             err == Prop(http.data, "error")
         IN  IF Throws(res) THEN res
             ELSE IF ~IsUndef(res.ret) THEN res
             ELSE IF Truthy(err.ret)
             THEN LET msg == JsToString(Prop(err.ret, "message").ret)
                  IN  IF Throws(msg) THEN msg ELSE Throw(<<"RPC Error: ">> \o msg.ret)
             ELSE res

\* makeRpcCall after the await: the value it returns or the Error it throws
\* (its catch block logs and rethrows): the Error of the POST, the TypeError
\* of reading a body that is null or of an error message that has no text,
\* or the RPC Error.
MakeRpcCall(http) ==
    IF IsFail(http) THEN Throw(http.fail)
    ELSE LET err == Prop(http.data, "error")
         IN  IF Throws(err) THEN err
             ELSE IF Truthy(err.ret)
             THEN LET msg == JsToString(Prop(err.ret, "message").ret)
                  IN  IF Throws(msg) THEN msg ELSE Throw(<<"RPC Error: ">> \o msg.ret)
             ELSE Prop(http.data, "result")

\* A faulty axios.post that sends the request a second time: C5 fails with it.
AxiosPostTwice(url, body) == <<[url |-> url, body |-> body], [url |-> url, body |-> body]>>

\* axios.post(url, body) in makeRpcCall: the requests it puts on the wire.
AxiosPost(url, body) == <<[url |-> url, body |-> body]>>

(***************************************************************************)
(* The tool handlers.                                                      *)
(***************************************************************************)
\* A handler's return value.
TextResult(t) == [content |-> <<[type |-> "text", text |-> t]>>]

\* A faulty error result that lacks its tag: C9 fails with it.
ErrorResultUntagged(t) == [content |-> <<[type |-> "text", text |-> t]>>]

ErrorResult(t) == [content |-> <<[type |-> "text", text |-> t]>>, isError |-> TRUE]

\* What each handler's catch block says the tool failed to do.
FailedTo(tool) ==
    CASE tool = "flow_getNetworkInfo" -> " get network information. "
      [] tool \in {"flow_getCode", "eth_getCode"} -> " get code. "
      [] tool = "flow_chainId" -> " get chain ID. "
      [] tool \in {"flow_gasPrice", "eth_gasPrice"} -> " get gas price. "
      [] tool \in {"flow_getBalance", "eth_getBalance"} -> " get balance. "
      [] tool \in {"flow_call", "eth_call"} -> " execute call. "
      [] tool \in {"flow_getLogs", "eth_getLogs"} -> " get logs. "
      [] tool \in {"flow_sendRawTransaction", "eth_sendTransaction"} ->
            " send transaction. "
      [] tool = "flow_blockNumber" -> " get block number. "
      [] tool = "flow_checkCOA" -> " check COA status. "

SendTransactionNote ==
    <<"\n\nNote: Most public RPC endpoints don't allow sending raw transactions as it requires an unlocked account. Consider using a wallet or signing the transaction locally before broadcasting.">>

\* A faulty catch block that throws the Error on: C4 fails with it.
HandlerCatchRethrow(tool, e) == [throw |-> e]

\* The catch block of a handler: the thrown Error becomes an error result.
\* Whatever is thrown here is an Error instance (from axios, from new Error,
\* a TypeError), so error.message is what both servers put in the text.
HandlerCatch(tool, e) ==
    [ret |-> ErrorResult(<<"Error: Failed to", FailedTo(tool)>> \o e.message
                         \o (IF tool = "eth_sendTransaction" THEN SendTransactionNote
                             ELSE <<>>))]

CoaPrefix == <<"0", "x">> \o Rep("0", 23) \o <<"2">>

CoaFactory == CoaPrefix \o Rep("0", 16)

\* A faulty flow_checkCOA that looks at the prefix before it looks for the
\* factory address: C6 fails with it.
CheckCOATextPrefixFirst(address) ==
    LET isCOA == StartsWith(ToLowerCase(address), CoaPrefix)
        isFactoryAddress == ToLowerCase(address) = CoaFactory
    IN  <<"The address ">> \o address \o
        (IF isCOA
         THEN <<" is a Cadence-Owned Account (COA), which is controlled by a resource in the Cadence environment, not by a private key.">>
         ELSE IF isFactoryAddress
         THEN <<" is the COA factory address, which is reserved for deploying contracts for COA accounts.">>
         ELSE <<" is not a Cadence-Owned Account (COA). It appears to be a regular Externally Owned Account (EOA) or contract address.">>)

\* The message flow_checkCOA builds.
CheckCOAText(address) ==
    LET isCOA == StartsWith(ToLowerCase(address), CoaPrefix)
        isFactoryAddress == ToLowerCase(address) = CoaFactory
    IN  <<"The address ">> \o address \o
        (IF isFactoryAddress
         THEN <<" is the COA factory address, which is reserved for deploying contracts for COA accounts.">>
         ELSE IF isCOA
         THEN <<" is a Cadence-Owned Account (COA), which is controlled by a resource in the Cadence environment, not by a private key.">>
         ELSE <<" is not a Cadence-Owned Account (COA). It appears to be a regular Externally Owned Account (EOA) or contract address.">>)

NetworkInfoText ==
    <<"Flow EVM Network Information:\nNetwork Name: ">> \o NETWORK_CONFIG.name
    \o <<"\nRPC Endpoint: ">> \o NETWORK_CONFIG.rpcUrl
    \o <<"\nChain ID: ">> \o IntText(NETWORK_CONFIG.chainId)
    \o <<"\nBlock Explorer: ">> \o NETWORK_CONFIG.blockExplorer
    \o <<"\nCurrency: ">> \o NETWORK_CONFIG.currency

\* The handlers that never call makeRpcCall: the text they return.
LocalText(tool, args) ==
    IF tool = "flow_checkCOA" THEN CheckCOAText(Field(args, "address").str)
    ELSE NetworkInfoText

GweiDecimals == 2

GweiDigits == 9

FlowDecimals == 6

FlowDigits == 18

\* The text each handler builds from what makeRpcCall returned: [ret |-> the
\* text], or what parseInt or a template literal throws on the way.
GetCodeText(args, code) ==
    IF IsStr(code) /\ code.str = <<"0", "x">>
    THEN Template(<<<<"No code found", " at address ">>,
                    <<" (this may be a regular wallet address, not a contract)">>>>,
                  <<JsToString(Field(args, "address"))>>)
    ELSE Template(<<<<"Contract code at ">>, <<":\n">>, <<>>>>,
                  <<JsToString(Field(args, "address")), JsToString(code)>>)

ChainIdText(chainId) ==
    LET chainIdDecimal == ParseInt(chainId)
    IN  IF Throws(chainIdDecimal) THEN chainIdDecimal
        ELSE Template(<<<<"Current Chain ID:\nHex: ">>, <<"\nDecimal: ">>, <<>>>>,
                      <<JsToString(chainId), [ret |-> NumToString(chainIdDecimal.ret)]>>)

GasPriceText(tool, gasPrice) ==
    LET gasPriceWei == ParseInt(gasPrice)
    IN  IF Throws(gasPriceWei) THEN gasPriceWei
        ELSE Template(<<<<"Current Gas Price:\n">>,
                        IF tool = "flow_gasPrice" THEN <<" Atto-FLOW\n">> ELSE <<" Wei\n">>,
                        <<" Gwei">>>>,
                      <<[ret |-> NumToString(gasPriceWei.ret)],
                        [ret |-> ToFixed(DivPow10(gasPriceWei.ret, GweiDigits),
                                         GweiDecimals)]>>)

GetBalanceText(tool, args, balance) ==
    LET balanceAttoFlow == ParseInt(balance)
    IN  IF Throws(balanceAttoFlow) THEN balanceAttoFlow
        ELSE Template(<<<<"Balance for ">>, <<":\n">>,
                        IF tool = "flow_getBalance" THEN <<" Atto-FLOW\n">>
                        ELSE <<" Wei\n">>,
                        IF tool = "flow_getBalance" THEN <<" FLOW">> ELSE <<" ETH">>>>,
                      <<JsToString(Field(args, "address")),
                        [ret |-> NumToString(balanceAttoFlow.ret)],
                        [ret |-> ToFixed(DivPow10(balanceAttoFlow.ret, FlowDigits),
                                         FlowDecimals)]>>)

CallText(result) == Template(<<<<"Call result:\n">>, <<>>>>, <<JsToString(result)>>)

SendRawTransactionText(txHash) ==
    Template(<<<<"Transaction sent successfully!\nTransaction Hash: ">>,
               <<"\nView on Block Explorer: ">>, <<"/tx/">>, <<>>>>,
             <<JsToString(txHash), [ret |-> NETWORK_CONFIG.blockExplorer],
               JsToString(txHash)>>)

SendTransactionText(txHash) ==
    Template(<<<<"Transaction sent!\nTransaction Hash: ">>,
               <<"\n\nNote: This request will only work on nodes where the 'from' account is unlocked. Most public nodes don't allow direct transaction sending.">>>>,
             <<JsToString(txHash)>>)

BlockNumberText(blockNumber) ==
    LET blockNumberDecimal == ParseInt(blockNumber)
    IN  IF Throws(blockNumberDecimal) THEN blockNumberDecimal
        ELSE Template(<<<<"Latest Block Number:\nHex: ">>, <<"\nDecimal: ">>, <<>>>>,
                      <<JsToString(blockNumber),
                        [ret |-> NumToString(blockNumberDecimal.ret)]>>)

NoLogsText == <<"No logs found matching the filter criteria.">>

\* The callback of logs.map on entry number index + 1: [ret |-> its text], or
\* the first TypeError in the template's order: of reading a null entry, of
\* a field that has no text, of joining topics that are no array.
LogText(log, index) ==
    IF Throws(Prop(log, "address")) THEN Prop(log, "address")
    ELSE LET blockNumber == ParseInt(Prop(log, "blockNumber").ret)
             topics == Prop(log, "topics").ret
         IN  Template(<<<<"Log #">>, <<":\n  Address: ">>, <<"\n  Block Number: ">>,
                        <<"\n  Transaction Hash: ">>, <<"\n  Topics: ">>,
                        <<"\n  Data: ">>, <<>>>>,
                      <<[ret |-> IntText(index + 1)],
                        JsToString(Prop(log, "address").ret),
                        IF Throws(blockNumber) THEN blockNumber
                        ELSE [ret |-> NumToString(blockNumber.ret)],
                        JsToString(Prop(log, "transactionHash").ret),
                        IF IsNull(topics) \/ IsUndef(topics)
                        THEN CannotRead(topics, "join")
                        ELSE IF ~IsArr(topics)
                        THEN Throw(<<"log.topics.join is not a function">>)
                        ELSE JsJoin(topics.arr, <<"\n          ">>),
                        JsToString(Prop(log, "data").ret)>>)

\* A faulty getLogs that lists an empty array like any other: C7 fails
\* with it.
GetLogsTextEmptyListing(logs) ==
    LET length == Prop(logs, "length")
    IN  IF Throws(length) THEN length
        ELSE IF ~IsArr(logs) THEN Throw(<<"logs.map is not a function">>)
        ELSE LET entries == [i \in 1..Len(logs.arr) |-> LogText(logs.arr[i], i - 1)]
                 bad == {i \in 1..Len(logs.arr) : Throws(entries[i])}
             IN  IF bad # {} THEN entries[CHOOSE i \in bad : \A j \in bad : i <= j]
                 ELSE [ret |-> <<"Found ">> \o IntText(Len(logs.arr)) \o <<" logs:\n\n">>
                               \o Join([i \in 1..Len(logs.arr) |-> entries[i].ret],
                                       <<"\n\n">>)]

\* The body of the getLogs handlers after makeRpcCall returned logs.
GetLogsText(logs) ==
    LET length == Prop(logs, "length")
    IN  IF Throws(length) THEN length
        ELSE IF length.ret = JNum(0) THEN [ret |-> NoLogsText]
        ELSE IF ~IsArr(logs) THEN Throw(<<"logs.map is not a function">>)
        ELSE LET entries == [i \in 1..Len(logs.arr) |-> LogText(logs.arr[i], i - 1)]
                 bad == {i \in 1..Len(logs.arr) : Throws(entries[i])}
             IN  IF bad # {} THEN entries[CHOOSE i \in bad : \A j \in bad : i <= j]
                 ELSE [ret |-> <<"Found ">> \o IntText(Len(logs.arr)) \o <<" logs:\n\n">>
                               \o Join([i \in 1..Len(logs.arr) |-> entries[i].ret],
                                       <<"\n\n">>)]

\* The statements of an RPC-backed handler between makeRpcCall's return and
\* its own: [ret |-> the text], or what they throw.
Format(tool, args, value) ==
    CASE tool \in {"flow_getCode", "eth_getCode"} -> GetCodeText(args, value)
      [] tool = "flow_chainId" -> ChainIdText(value)
      [] tool \in {"flow_gasPrice", "eth_gasPrice"} -> GasPriceText(tool, value)
      [] tool \in {"flow_getBalance", "eth_getBalance"} ->
            GetBalanceText(tool, args, value)
      [] tool \in {"flow_call", "eth_call"} -> CallText(value)
      [] tool \in {"flow_getLogs", "eth_getLogs"} -> GetLogsText(value)
      [] tool = "flow_sendRawTransaction" -> SendRawTransactionText(value)
      [] tool = "eth_sendTransaction" -> SendTransactionText(value)
      [] tool = "flow_blockNumber" -> BlockNumberText(value)

None == [none |-> TRUE]

\* An RPC-backed handler from the end of its await on, makeRpcCall having
\* returned or thrown rpc: what the handler returns (or throws) and the value
\* its formatting statements were given, if they ran.
HandlerResume(tool, args, rpc) ==
    IF Throws(rpc) THEN [out |-> HandlerCatch(tool, rpc.throw), formatted |-> None]
    ELSE LET f == Format(tool, args, rpc.ret)
         IN  [out |-> IF Throws(f) THEN HandlerCatch(tool, f.throw)
                      ELSE [ret |-> TextResult(f.ret)],
              formatted |-> [value |-> rpc.ret]]

(***************************************************************************)
(* The inputs: argument bundles the host sends and outcomes of the POST.   *)
(***************************************************************************)
AddrCoa ==
    CoaPrefix \o <<"a", "b", "c", "d", "e", "f", "0", "1", "2", "3", "4", "5", "6", "7",
                   "8", "9">>

AddrCoaUpper ==
    CoaPrefix \o <<"A", "B", "C", "D", "E", "F", "0", "1", "2", "3", "4", "5", "6", "7",
                   "8", "9">>

\* 0x76A56657d20f572872A81b75530c905fD9F845e5
AddrEoa ==
    <<"0", "x", "7", "6", "A", "5", "6", "6", "5", "7", "d", "2", "0", "f", "5", "7", "2",
      "8", "7", "2", "A", "8", "1", "b", "7", "5", "5", "3", "0", "c", "9", "0", "5", "f",
      "D", "9", "F", "8", "4", "5", "e", "5">>

\* One digit away from the reserved prefix.
AddrNearCoa == <<"0", "x">> \o Rep("0", 23) \o <<"3">> \o Rep("0", 16)

ValidAddresses ==
    {CoaFactory, AddrCoa, AddrCoaUpper, AddrEoa, ToLowerCase(AddrEoa), AddrNearCoa}

\* 39 and 41 hex digits, a letter that is no hex digit, no 0x, 0X, nothing.
AddrShort == SubSeq(AddrEoa, 1, 41)

AddrLong == AddrCoa \o <<"0">>

AddrNonHex == [AddrEoa EXCEPT ![42] = "g"]

AddrNoPrefix == SubSeq(AddrEoa, 3, 42)

AddrUpperX == [AddrCoa EXCEPT ![2] = "X"]

InvalidAddresses ==
    {AddrShort, AddrLong, AddrNonHex, AddrNoPrefix, AddrUpperX, <<>>}

Topic1 == <<"0", "x">> \o Rep("d", 64)

Topic2 == <<"0", "x">> \o Rep("0", 63) \o <<"1">>

BadTopic == <<"0", "x">> \o Rep("d", 63)

EmptyObj == JObj([k \in {} |-> JNull])

BlockParameters ==
    {JStr(<<"pending">>), JStr(<<"0", "x", "1", "b", "4">>), JStr(<<"banana">>), JNum(7)}

AddressBundles ==
    {JObj([address |-> JStr(a)]) : a \in {AddrEoa, AddrCoa} \cup InvalidAddresses}
    \cup {JObj([address |-> JStr(AddrEoa), blockParameter |-> b]) : b \in BlockParameters}
    \cup {JObj([address |-> JStr(AddrShort), blockParameter |-> JStr(<<"pending">>)]),
          JObj([address |-> JNum(7)]), EmptyObj}

CoaBundles ==
    {JObj([address |-> JStr(a)]) : a \in ValidAddresses \cup InvalidAddresses}
    \cup {JObj([address |-> JNull]), EmptyObj}

NoData == <<"0", "x">>

CallData == <<"0", "x", "7", "0", "a", "0", "8", "2", "3", "1">>

Gas == <<"0", "x", "5", "2", "0", "8">>

CallBundles ==
    {JObj([transaction |-> JObj([to |-> JStr(AddrEoa), data |-> JStr(NoData)])]),
     JObj([transaction |-> JObj([from |-> JStr(AddrCoa), to |-> JStr(AddrEoa),
                               data |-> JStr(CallData), gas |-> JStr(Gas), extra |-> JNum(1)]),
          blockParameter |-> JStr(<<"banana">>)]),
     JObj([transaction |-> JObj([to |-> JStr(AddrShort), data |-> JStr(NoData)])]),
     JObj([transaction |-> JObj([from |-> JStr(AddrNonHex), to |-> JStr(AddrEoa),
                               data |-> JStr(NoData)])]),
     JObj([transaction |-> JObj([to |-> JStr(AddrEoa)])]),
     JObj([transaction |-> JObj([to |-> JStr(AddrEoa), data |-> JStr(NoData),
                               gas |-> JStr(NoData)])]),
     EmptyObj}

FilterBundles ==
    {JObj([filter |-> EmptyObj]),
     JObj([filter |-> JObj([address |-> JStr(AddrEoa)])]),
     JObj([filter |-> JObj([address |-> JArr(<<JStr(AddrEoa), JStr(AddrCoa)>>),
                          fromBlock |-> JStr(<<"0", "x", "1">>),
                          toBlock |-> JStr(Latest),
                          topics |-> JArr(<<JStr(Topic1), JNull,
                                            JArr(<<JStr(Topic1), JStr(Topic2)>>)>>)])]),
     JObj([filter |-> JObj([fromBlock |-> JStr(<<"banana">>)])]),
     JObj([filter |-> JObj([address |-> JStr(AddrNonHex)])]),
     JObj([filter |-> JObj([address |-> JArr(<<JStr(AddrEoa), JStr(AddrShort)>>)])]),
     JObj([filter |-> JObj([topics |-> JArr(<<JStr(BadTopic)>>)])]),
     EmptyObj}

RawTxBundles ==
    {JObj([signedTransactionData |-> JStr(<<"0", "x", "f", "8", "6", "c", "0", "1">>)]),
     JObj([signedTransactionData |-> JStr(NoData)]),
     EmptyObj}

SendTxBundles ==
    {JObj([transaction |-> JObj([from |-> JStr(AddrEoa), to |-> JStr(AddrCoa),
                               value |-> JStr(Gas)])]),
     JObj([transaction |-> JObj([from |-> JStr(AddrShort)])]),
     JObj([transaction |-> JObj([from |-> JStr(AddrEoa), to |-> JStr(AddrUpperX)])]),
     JObj([transaction |-> JObj([to |-> JStr(AddrEoa)])])}

\* The argument bundles the host sends each tool.
Bundles(tool) ==
    CASE tool \in {"flow_getCode", "flow_getBalance", "eth_getCode", "eth_getBalance"} ->
            AddressBundles
      [] tool = "flow_checkCOA" -> CoaBundles
      [] tool \in {"flow_call", "eth_call"} -> CallBundles
      [] tool \in {"flow_getLogs", "eth_getLogs"} -> FilterBundles
      [] tool = "flow_sendRawTransaction" -> RawTxBundles
      [] tool = "eth_sendTransaction" -> SendTxBundles
      [] OTHER -> {EmptyObj, JObj([extra |-> JNum(1)])}

\* Hex quantities a node returns (Results adds texts that are none and that
\* parseInt reads all the same: with white space, with a sign, in an array,
\* and one beyond the doubles).
Quantities ==
    {<<"0", "x", "0">>,
     <<"0", "x", "1">>,
     <<"0", "x", "2", "2", "1">>,
     <<"0", "x", "3", "b", "9", "a", "c", "a", "0", "0">>,
     <<"0", "x", "4", "c", "4", "b", "4", "0">>,
     <<"0", "x", "7", "4", "6", "a", "5", "2", "8", "8", "0", "0">>,
     <<"0", "x", "d", "e", "0", "b", "6", "b", "3", "a", "7", "6", "4", "0", "0",
             "0", "0">>,
     <<"0", "x", "2", "0", "0", "0", "0", "0", "0", "0", "0", "0", "0", "0", "0",
       "1">>,
     <<"0", "x">> \o Rep("f", 64)}

TxHash == <<"0", "x">> \o Rep("a", 64)

Bytecode == <<"0", "x", "6", "0", "8", "0", "6", "0", "4", "0">>

Log1 ==
    JObj([address |-> JStr(AddrEoa), blockNumber |-> JStr(<<"0", "x", "1", "0">>),
         transactionHash |-> JStr(TxHash), topics |-> JArr(<<JStr(Topic1), JStr(Topic2)>>),
         data |-> JStr(NoData)])

Log2 ==
    JObj([address |-> JStr(AddrCoa), blockNumber |-> JStr(<<"0", "x", "f", "f">>),
         transactionHash |-> JStr(TxHash), topics |-> JArr(<<>>),
         data |-> JStr(CallData)])

\* A log without topics.
BadLog == JObj([address |-> JStr(AddrEoa), blockNumber |-> JStr(<<"0", "x", "1">>)])

Logs == {Log1, Log2}

RECURSIVE SeqsUpTo(_, _)
SeqsUpTo(set, n) ==
    IF n = 0 THEN {<<>>}
    ELSE LET shorter == SeqsUpTo(set, n - 1)
         IN  shorter \cup {Append(q, x) : q \in {p \in shorter : Len(p) = n - 1}, x \in set}

LogArrays == {JArr(a) : a \in SeqsUpTo(Logs, MaxLogs)}

\* Values of no use to any formatter; the last has no text at all.
OddResults == {JNull, JNum(7), EmptyObj, JStr(<<>>), JObj([toString |-> JNum(1)])}

\* The result values a node answers each tool with.
Results(tool) ==
    OddResults \cup
    CASE tool \in {"flow_getCode", "eth_getCode"} -> {JStr(NoData), JStr(Bytecode)}
      [] tool \in {"flow_call", "eth_call"} -> {JStr(NoData), JStr(Topic2)}
      [] tool \in {"flow_getLogs", "eth_getLogs"} ->
            LogArrays \cup {JArr(<<JNull>>), JArr(<<Log1, BadLog>>),
                            JArr(<<JObj([address |-> EmptyObj,
                                         data |-> JObj([toString |-> JNum(1)])])>>),
                            JArr(<<JObj([address |-> JObj([toString |-> JNull]),
                                         blockNumber |-> JStr(<<"0", "x", "1">>)])>>)}
      [] tool \in {"flow_sendRawTransaction", "eth_sendTransaction"} -> {JStr(TxHash)}
      [] OTHER -> {JStr(q) : q \in Quantities}
                  \cup {JStr(<<" ", "0", "x", "1", "0">>), JStr(<<"-", "0", "x", "1">>),
                        JStr(<<"\n", "-", "0", "X", "0">>), JArr(<<JStr(<<"0", "x", "f">>)>>),
                        JStr(<<"", "﻿", "0", "x", "1", "0">>),
                        JStr(<<"-", "0", "x">> \o Rep("f", 256))}

RpcErrors ==
    {JObj([code |-> JNum(3), message |-> JStr(<<"execution reverted">>)]),
     JObj([code |-> JNum(32000), message |-> JStr(<<"header not found">>)])}

\* The response bodies: with a result, an error, both, a result and a null
\* error, an error whose message has no text, neither, and no body at all.
Bodies(tool) ==
    {JObj([jsonrpc |-> JStr(<<"2.0">>), id |-> JNum(1), result |-> r]) :
        r \in Results(tool)}
    \cup {JObj([jsonrpc |-> JStr(<<"2.0">>), id |-> JNum(1), error |-> e]) :
            e \in RpcErrors}
    \cup {JObj([jsonrpc |-> JStr(<<"2.0">>), id |-> JNum(1), result |-> r, error |-> e]) :
            r \in Results(tool) \ OddResults, e \in RpcErrors}
    \cup {JObj([jsonrpc |-> JStr(<<"2.0">>), id |-> JNum(1), result |-> r,
                error |-> JNull]) :
            r \in Results(tool) \cap {JStr(NoData), JStr(TxHash), JArr(<<>>),
                                      JStr(<<"0", "x", "2", "2", "1">>)}}
    \cup {JObj([jsonrpc |-> JStr(<<"2.0">>), id |-> JNum(1),
                error |-> JObj([code |-> JNum(3),
                                message |-> JArr(<<JObj([toString |-> JNum(1)])>>)])]),
          JObj([jsonrpc |-> JStr(<<"2.0">>), id |-> JNum(1)]), JNull}

\* Messages of the Errors axios rejects with.
TransportMessages == {<<"connect ECONNREFUSED">>, <<"Request failed with status code 500">>}

(***************************************************************************)
(* The server: the host calls tools one after the other.  An RPC-backed    *)
(* call is suspended at the await of makeRpcCall until the POST answers or *)
(* fails; makeRpcCall then runs on to its return or throw, and in a later  *)
(* run of the event loop the handler runs on from its own await.           *)
(***************************************************************************)
Idle == [st |-> "idle"]

\* What the caller gets when the bundle does not fit the tool's shape: the
\* dispatcher answers without calling the handler.
RejectResult(tool) == ErrorResult(<<"Invalid arguments for tool ", tool>>)

\* A handler that never awaits: its try block returns the text.
HandlerLocal(tool, args) == [ret |-> TextResult(LocalText(tool, args))]

\* The record of a call whose handler ended: returned or threw.
Ended(tool, raw, args, http, run) ==
    IF Throws(run.out)
    THEN [st |-> "threw", tool |-> tool, raw |-> raw, args |-> args, http |-> http,
          formatted |-> run.formatted, error |-> run.out.throw]
    ELSE [st |-> "done", tool |-> tool, raw |-> raw, args |-> args, http |-> http,
          formatted |-> run.formatted, result |-> run.out.ret]

\* tools/call: the bundle is parsed against the tool's shape; a bundle that
\* fits is handed to the handler, which runs to its return or to its await
\* inside makeRpcCall's axios.post.  wire[i] holds the requests posted for
\* the call in slot i.
CallTool(i, tool, raw) ==
    /\ inv[i].st \in {"idle", "done", "rejected", "threw"}
    /\ calls < MaxCalls
    /\ tool \in Registry(server)
    /\ calls' = calls + 1
    /\ LET v == Validate(tool, raw)
       IN  IF ~v.ok
           THEN /\ inv' = [inv EXCEPT ![i] = [st |-> "rejected", tool |-> tool,
                                              raw |-> raw,
                                              result |-> RejectResult(tool)]]
                /\ wire' = [wire EXCEPT ![i] = <<>>]
                /\ UNCHANGED <<posts, started>>
           ELSE IF tool \in LocalTools
           THEN /\ inv' = [inv EXCEPT ![i] =
                            Ended(tool, raw, v.data, None,
                                  [out |-> HandlerLocal(tool, v.data),
                                   formatted |-> None])]
                /\ wire' = [wire EXCEPT ![i] = <<>>]
                /\ UNCHANGED <<posts, started>>
           ELSE LET sent == AxiosPost(RpcUrl(server),
                                      RpcRequest(RpcMethod(tool), RpcParams(tool, v.data)))
                IN  /\ inv' = [inv EXCEPT ![i] = [st |-> "pending", tool |-> tool,
                                                  raw |-> raw, args |-> v.data]]
                    /\ wire' = [wire EXCEPT ![i] = sent]
                    /\ posts' = posts + Len(sent)
                    /\ started' = started + 1
    /\ UNCHANGED server

\* The POST of call i completes with outcome http (the endpoint answers
\* with a body, or the transport fails): the promise of axios.post settles;
\* makeRpcCall has yet to run on.  Nothing more is posted for the call.
Arrive(i, http) ==
    /\ inv[i].st = "pending"
    /\ inv' = [inv EXCEPT ![i] =
                [st |-> "arrived", tool |-> inv[i].tool, raw |-> inv[i].raw,
                 args |-> inv[i].args, http |-> http]]
    /\ UNCHANGED <<server, wire, posts, started, calls>>

\* A faulty makeRpcCall that runs on only when the POST was answered: after
\* a transport failure the call hangs. C15 fails with it.
ResumeOnDataOnly(i) ==
    /\ inv[i].st = "arrived"
    /\ ~IsFail(inv[i].http)
    /\ inv' = [inv EXCEPT ![i] =
                [st |-> "returned", tool |-> inv[i].tool, raw |-> inv[i].raw,
                 args |-> inv[i].args, http |-> inv[i].http,
                 rpc |-> MakeRpcCall(inv[i].http)]]
    /\ UNCHANGED <<server, wire, posts, started, calls>>

\* The event loop runs makeRpcCall of call i on from its await, with the
\* outcome of its own POST, to its return or its throw: the promise the
\* handler awaits settles; the handler has yet to run on.
RpcReturn(i) ==
    /\ inv[i].st = "arrived"
    /\ inv' = [inv EXCEPT ![i] =
                [st |-> "returned", tool |-> inv[i].tool, raw |-> inv[i].raw,
                 args |-> inv[i].args, http |-> inv[i].http,
                 rpc |-> MakeRpcCall(inv[i].http)]]
    /\ UNCHANGED <<server, wire, posts, started, calls>>

\* A faulty resumption that pairs calls with outcomes by the id of the
\* request, which is 1 for all: the handler is given what the first
\* makeRpcCall that ended returned. C14 fails with it.
ResumeById(i) ==
    /\ inv[i].st = "returned"
    /\ LET j == CHOOSE j \in DOMAIN inv :
                    /\ inv[j].st = "returned"
                    /\ \A k \in DOMAIN inv : inv[k].st = "returned" => j <= k
       IN  inv' = [inv EXCEPT ![i] =
                    Ended(inv[i].tool, inv[i].raw, inv[i].args, inv[j].http,
                          HandlerResume(inv[i].tool, inv[i].args, inv[j].rpc))]
    /\ UNCHANGED <<server, wire, posts, started, calls>>

\* Later the event loop runs the handler of call i on from its await on
\* makeRpcCall, with what its own makeRpcCall returned or threw, to its
\* return.
Resume(i) ==
    /\ inv[i].st = "returned"
    /\ inv' = [inv EXCEPT ![i] =
                Ended(inv[i].tool, inv[i].raw, inv[i].args, inv[i].http,
                      HandlerResume(inv[i].tool, inv[i].args, inv[i].rpc))]
    /\ UNCHANGED <<server, wire, posts, started, calls>>

Slots == {1}

Init ==
    /\ server \in Servers
    /\ inv = [i \in Slots |-> Idle]
    /\ wire = [i \in Slots |-> <<>>]
    /\ posts = 0
    /\ started = 0
    /\ calls = 0

Next ==
    \E i \in Slots :
        \/ \E tool \in FlowTools \cup EthTools : \E raw \in Bundles(tool) :
                CallTool(i, tool, raw)
        \/ /\ inv[i].st = "pending"
           /\ \E body \in Bodies(inv[i].tool) : Arrive(i, HttpData(body))
        \/ \E msg \in TransportMessages : Arrive(i, HttpFail(msg))
        \/ RpcReturn(i)
        \/ Resume(i)

Spec == Init /\ [][Next]_vars

(***************************************************************************)
(* The server under a host that issues calls concurrently.  Each call is   *)
(* an async closure of its own; its awaits part it in runs of the event    *)
(* loop, between which the runs of other calls may come.                   *)
(***************************************************************************)
InitConcurrent ==
    /\ server \in Servers
    /\ inv = [i \in 1..MaxInFlight |-> Idle]
    /\ wire = [i \in 1..MaxInFlight |-> <<>>]
    /\ posts = 0
    /\ started = 0
    /\ calls = 0

\* The response bodies of the concurrent runs, one of each kind: with no
\* code, with code, with an error, and no body at all.
BodiesInFlight ==
    {JObj([jsonrpc |-> JStr(<<"2.0">>), id |-> JNum(1), result |-> r]) :
        r \in {JStr(NoData), JStr(Bytecode)}}
    \cup {JObj([jsonrpc |-> JStr(<<"2.0">>), id |-> JNum(1), error |-> e]) :
            e \in RpcErrors}
    \cup {JNull}

\* The host calls the tools that take an address, with two addresses and one
\* that is too short.
NextConcurrent ==
    \E i \in 1..MaxInFlight :
        \/ \E tool \in {"flow_getCode", "flow_checkCOA", "eth_getCode"} :
                \E a \in {AddrEoa, AddrCoa, AddrShort} :
                    CallTool(i, tool, JObj([address |-> JStr(a)]))
        \/ /\ inv[i].st = "pending"
           /\ \E body \in BodiesInFlight : Arrive(i, HttpData(body))
        \/ \E msg \in TransportMessages : Arrive(i, HttpFail(msg))
        \/ RpcReturn(i)
        \/ Resume(i)

Concurrent == InitConcurrent /\ [][NextConcurrent]_vars

\* The event loop runs every function on whose awaited promise has settled,
\* makeRpcCall and the handler alike; that the endpoint answers, or that the
\* host calls, nothing guarantees.
Live == Concurrent /\ \A i \in 1..MaxInFlight : WF_vars(RpcReturn(i)) /\ WF_vars(Resume(i))

(***************************************************************************)
(* The properties.                                                         *)
(***************************************************************************)
\* The values a bundle carries where a tool takes an address.
AddressFields(tool, raw) ==
    LET inside(k) == IF IsObj(Field(raw, k)) THEN Field(raw, k) ELSE JObj(<<>>)
    IN  CASE tool \in {"flow_getCode", "flow_getBalance", "flow_checkCOA",
                       "eth_getCode", "eth_getBalance"} -> {Field(raw, "address")}
          [] tool \in {"flow_call", "eth_call", "eth_sendTransaction"} ->
                {Field(inside("transaction"), "from"), Field(inside("transaction"), "to")}
          [] tool \in {"flow_getLogs", "eth_getLogs"} ->
                LET a == Field(inside("filter"), "address")
                IN  IF IsArr(a) THEN {a.arr[j] : j \in 1..Len(a.arr)} ELSE {a}
          [] OTHER -> {}

\* s is 0x and forty hex digits.
TwentyBytes(s) ==
    /\ Len(s) = 42
    /\ s[1] = "0" /\ s[2] = "x"
    /\ \A j \in 3..42 : s[j] \in HexChars

\* Some address of the bundle is a string that is no 20-byte address.
HasBadAddress(tool, raw) ==
    \E v \in AddressFields(tool, raw) : IsStr(v) /\ ~TwentyBytes(v.str)

\* C1: a call whose bundle carries an address that does not match
\* ^0x[a-fA-F0-9]{40}$ is rejected before the handler runs: nothing is
\* posted for it and the caller gets a result with isError true.
C1_BadAddressRejected ==
    \A i \in Slots :
        (inv[i].st # "idle" /\ HasBadAddress(inv[i].tool, inv[i].raw)) =>
            /\ inv[i].st = "rejected"
            /\ wire[i] = <<>>
            /\ "isError" \in DOMAIN inv[i].result
            /\ inv[i].result.isError = TRUE

\* A call with a bad address among several was rejected after an earlier call
\* had posted: the count of posts is still one.
C1_Witness ==
    \E i \in Slots :
        /\ inv[i].st = "rejected"
        /\ inv[i].tool \in {"flow_getLogs", "eth_getLogs"}
        /\ HasBadAddress(inv[i].tool, inv[i].raw)
        /\ calls = 2 /\ posts = 1

\* The handler of call i has ended and had posted a request.
Settled(i) == inv[i].st \in {"done", "threw"} /\ inv[i].tool \notin LocalTools

\* The POST of call i was answered with a JSON object as body.
Answered(i) == "data" \in DOMAIN inv[i].http /\ IsObj(inv[i].http.data)

\* The handler of call i returned a result tagged as an error.
Failed(i) ==
    /\ inv[i].st = "done"
    /\ "isError" \in DOMAIN inv[i].result
    /\ inv[i].result.isError = TRUE

\* The text of the result of call i.
ResultText(i) == inv[i].result.content[1].text

\* C2: when the response carries an error object, with or without a result,
\* the result of the tool is tagged isError, its text contains the error's
\* message (a string), and the formatter is given nothing.
C2_RpcErrorIsFailure ==
    \A i \in Slots :
        (Settled(i) /\ Answered(i) /\ IsObj(Field(inv[i].http.data, "error"))) =>
            /\ Failed(i)
            /\ IsStr(Field(Field(inv[i].http.data, "error"), "message")) =>
                    Contains(ResultText(i),
                             Field(Field(inv[i].http.data, "error"), "message").str)
            /\ inv[i].formatted = None

\* A balance query was answered with a balance and an error at once, and
\* ended as a failure that names the error.
C2_Witness ==
    \E i \in Slots :
        /\ Settled(i) /\ Answered(i)
        /\ inv[i].tool = "flow_getBalance"
        /\ IsObj(Field(inv[i].http.data, "error"))
        /\ IsStr(Field(inv[i].http.data, "result"))
        /\ Failed(i)
        /\ Contains(ResultText(i), <<"RPC Error: ", "header not found">>)

\* The response of call i has neither a result nor an error.
Neither(i) ==
    /\ Answered(i)
    /\ "result" \notin DOMAIN inv[i].http.data.obj
    /\ "error" \notin DOMAIN inv[i].http.data.obj

\* C3: a response with neither a result nor an error is a failure: the
\* result of the tool is tagged isError and the formatter is not applied.
C3_NeitherIsFailure ==
    \A i \in Slots :
        (Settled(i) /\ Neither(i)) => Failed(i) /\ inv[i].formatted = None

\* flow_chainId was answered by a response with neither field and returned
\* an untagged result, the text its formatter makes of undefined.
C3_Witness ==
    \E i \in Slots :
        /\ Settled(i) /\ Neither(i)
        /\ inv[i].tool = "flow_chainId"
        /\ inv[i].st = "done"
        /\ "isError" \notin DOMAIN inv[i].result
        /\ inv[i].formatted = [value |-> JUndef]
        /\ ResultText(i) = <<"Current Chain ID:\nHex: ", "undefined", "\nDecimal: ", "NaN">>

\* What went wrong in call i, if anything did: the Error makeRpcCall threw,
\* or the one the formatting statements threw.
Thrown(i) ==
    LET rpc == MakeRpcCall(inv[i].http)
    IN  IF Throws(rpc) THEN rpc
        ELSE Format(inv[i].tool, inv[i].args, rpc.ret)

\* C4: no handler throws to the host; a call whose POST failed in the
\* transport, and any call in which makeRpcCall or the formatting threw,
\* returns a result tagged isError whose text contains the failure's message.
C4_FailuresAreReturned ==
    \A i \in Slots :
        /\ inv[i].st # "threw"
        /\ (Settled(i) /\ IsFail(inv[i].http)) =>
                Failed(i) /\ Contains(ResultText(i), inv[i].http.fail)
        /\ (Settled(i) /\ Throws(Thrown(i))) =>
                Failed(i) /\ Contains(ResultText(i), Thrown(i).throw.message)

\* The second call of a run, a getLogs, saw its POST refused and returned
\* the failure.
C4_Witness ==
    \E i \in Slots :
        /\ Settled(i) /\ IsFail(inv[i].http)
        /\ inv[i].tool \in {"flow_getLogs", "eth_getLogs"}
        /\ calls = 2
        /\ Failed(i)
        /\ Contains(ResultText(i), <<"connect ECONNREFUSED">>)

\* C5: each call of an RPC-backed tool that passed validation has posted
\* exactly one request, whatever became of it, and the posts issued are as
\* many as such calls were started.
C5_OnePostPerCall ==
    /\ posts = started
    /\ \A i \in Slots :
        (inv[i].st \in {"pending", "arrived", "returned", "done", "threw"}
            /\ inv[i].tool \notin LocalTools) =>
                Len(wire[i]) = 1

\* Two calls in a row were both posted, and the second, whose POST failed,
\* was not posted again.
C5_Witness ==
    \E i \in Slots :
        /\ Settled(i) /\ IsFail(inv[i].http) /\ Failed(i)
        /\ calls = 2 /\ posts = 2 /\ Len(wire[i]) = 1

\* The handler of call i returned a result that is not tagged as an error.
Succeeded(i) == inv[i].st = "done" /\ "isError" \notin DOMAIN inv[i].result

\* What flow_checkCOA says of the address after naming it.
SaysFactory ==
    " is the COA factory address, which is reserved for deploying contracts for COA accounts."

SaysCoa ==
    " is a Cadence-Owned Account (COA), which is controlled by a resource in the Cadence environment, not by a private key."

SaysNotCoa ==
    " is not a Cadence-Owned Account (COA). It appears to be a regular Externally Owned Account (EOA) or contract address."

\* C6: flow_checkCOA posts nothing and reports the address by its lowercase
\* form: the factory address as such (although it has the prefix), any
\* other address with the prefix 0x000000000000000000000002 as a COA, every
\* other address as no COA.
C6_CheckCOAClassifies ==
    \A i \in Slots :
        (inv[i].st \in {"done", "threw"} /\ inv[i].tool = "flow_checkCOA") =>
            LET address == Field(inv[i].args, "address").str
                lower == ToLowerCase(address)
                said == ResultText(i)[Len(ResultText(i))]
            IN  /\ Succeeded(i)
                /\ wire[i] = <<>>
                /\ inv[i].http = None
                /\ ResultText(i) = <<"The address ">> \o address \o <<said>>
                /\ said = (IF lower = CoaFactory THEN SaysFactory
                           ELSE IF SubSeq(lower, 1, 26) = CoaPrefix THEN SaysCoa
                           ELSE SaysNotCoa)

\* The factory address, which has the reserved prefix, was reported as the
\* factory, with nothing posted in the run.
C6_Witness ==
    \E i \in Slots :
        /\ Succeeded(i)
        /\ inv[i].tool = "flow_checkCOA"
        /\ Field(inv[i].args, "address").str = CoaFactory
        /\ StartsWith(CoaFactory, CoaPrefix)
        /\ ResultText(i)[Len(ResultText(i))] = SaysFactory
        /\ posts = 0

\* Call i was a getLogs whose response carried the array logs as result and
\* no error.
GotLogs(i, logs) ==
    /\ Settled(i) /\ Answered(i)
    /\ inv[i].tool \in {"flow_getLogs", "eth_getLogs"}
    /\ ~Truthy(Field(inv[i].http.data, "error"))
    /\ Field(inv[i].http.data, "result") = JArr(logs)

\* The places of the text where an entry's label starts.
Labels(text) == {p \in 1..Len(text) : text[p] = "Log #"}

\* The k-th of them.
Label(text, k) ==
    CHOOSE p \in Labels(text) : Cardinality({q \in Labels(text) : q <= p}) = k

\* C7: a getLogs answered with an empty array returns, untagged, exactly the
\* text "No logs found matching the filter criteria."; answered with n > 0
\* logs it returns a text that announces n logs and has n labelled entries,
\* numbered 1 to n, the k-th for the k-th log returned.
C7_LogsListed ==
    \A i \in Slots :
        /\ GotLogs(i, <<>>) =>
                inv[i].result =
                    [content |-> <<[type |-> "text",
                                    text |-> <<"No logs found matching the filter criteria.">>]>>]
        /\ \A logs \in SeqsUpTo(Logs, MaxLogs) \ {<<>>} :
                GotLogs(i, logs) =>
                    LET text == ResultText(i)
                    IN  /\ Succeeded(i)
                        /\ SubSeq(text, 1, 3) = <<"Found ", IntText(Len(logs))[1], " logs:\n\n">>
                        /\ Cardinality(Labels(text)) = Len(logs)
                        /\ \A k \in 1..Len(logs) :
                            /\ SubSeq(text, Label(text, k) + 1, Label(text, k) + 2) =
                                    <<IntText(k)[1], ":\n  Address: ">>
                            /\ SubSeq(text, Label(text, k) + 3, Label(text, k) + 44) =
                                    Field(logs[k], "address").str

\* A getLogs was answered with two different logs and listed them as
\* returned.
C7_Witness ==
    \E i \in Slots :
        /\ GotLogs(i, <<Log2, Log1>>)
        /\ Succeeded(i)
        /\ Cardinality(Labels(ResultText(i))) = 2

\* Call i was a getCode whose response carried a result and no error.
GotCode(i) ==
    /\ Settled(i) /\ Answered(i)
    /\ inv[i].tool \in {"flow_getCode", "eth_getCode"}
    /\ ~Truthy(Field(inv[i].http.data, "error"))
    /\ "result" \in DOMAIN inv[i].http.data.obj

\* C8: a getCode answered with the result "0x" returns an untagged text
\* containing "No code found"; answered with any other result it returns an
\* untagged text that contains the result as returned, and not those words.
C8_CodeOrNoCode ==
    \A i \in Slots :
        GotCode(i) =>
            LET code == Field(inv[i].http.data, "result")
            IN  /\ Succeeded(i)
                /\ IF code = JStr(<<"0", "x">>)
                   THEN Contains(ResultText(i), <<"No code found">>)
                   ELSE /\ ~Throws(JsToString(code))
                        /\ Contains(ResultText(i), <<":\n">> \o JsToString(code).ret)
                        /\ ~Contains(ResultText(i), <<"No code found">>)

\* flow_getCode was answered with a result that is an object with a key
\* "toString", which has no text: the handler returned a failure.
C8_Witness ==
    \E i \in Slots :
        /\ GotCode(i)
        /\ inv[i].tool = "flow_getCode"
        /\ Field(inv[i].http.data, "result") = JObj([toString |-> JNum(1)])
        /\ inv[i].formatted = [value |-> JObj([toString |-> JNum(1)])]
        /\ Failed(i)
        /\ ResultText(i) = <<"Error: Failed to", " get code. ",
                             "Cannot convert object to primitive value">>

\* The text the statements of the tool of call i make of what they were
\* given: of the arguments alone for a local tool, of the value makeRpcCall
\* returned for the others ([ret |-> text], or what they throw).
Formatted(i) ==
    IF inv[i].tool \in LocalTools
    THEN [ret |-> LocalText(inv[i].tool, inv[i].args)]
    ELSE IF inv[i].formatted = None THEN None
    ELSE Format(inv[i].tool, inv[i].args, inv[i].formatted.value)

\* C9: a handler ends by returning one result, of one content entry of type
\* text; the result is either untagged and its text is the formatter's, or
\* tagged isError and its text begins with "Error: Failed to" and is not the
\* formatter's.
C9_SuccessOrFailure ==
    \A i \in Slots :
        /\ inv[i].st # "threw"
        /\ inv[i].st = "done" =>
            /\ DOMAIN inv[i].result \subseteq {"content", "isError"}
            /\ Len(inv[i].result.content) = 1
            /\ DOMAIN inv[i].result.content[1] = {"type", "text"}
            /\ inv[i].result.content[1].type = "text"
            /\ IF "isError" \in DOMAIN inv[i].result
               THEN /\ inv[i].result.isError = TRUE
                    /\ ResultText(i)[1] = "Error: Failed to"
                    /\ Formatted(i) # [ret |-> ResultText(i)]
               ELSE /\ Formatted(i) = [ret |-> ResultText(i)]
                    /\ ResultText(i)[1] # "Error: Failed to"

\* A getLogs was given two entries, of which the second has no topics: the
\* first was formatted, the second threw, and the result is the error alone.
C9_Witness ==
    \E i \in Slots :
        /\ GotLogs(i, <<Log1, BadLog>>)
        /\ inv[i].formatted = [value |-> JArr(<<Log1, BadLog>>)]
        /\ Failed(i)
        /\ ResultText(i)[1] = "Error: Failed to"
        /\ ~Contains(ResultText(i), <<"Log #">>)

\* Call i was a balance (TRUE) or a gas price (FALSE) query whose response
\* carried the hex quantity q as result and no error.
GotQuantity(i, balance, q) ==
    /\ Settled(i) /\ Answered(i)
    /\ inv[i].tool \in (IF balance THEN {"flow_getBalance", "eth_getBalance"}
                        ELSE {"flow_gasPrice", "eth_gasPrice"})
    /\ ~Truthy(Field(inv[i].http.data, "error"))
    /\ Field(inv[i].http.data, "result") = JStr(q)

\* The two amounts a balance or gas price text shows: the text is a heading,
\* the first amount, a unit, the second amount, a unit.
Amounts(text, first, second) ==
    \E h \in 1..(Len(text) - Len(first) - 2) :
        /\ text[h] \in {":\n", "Current Gas Price:\n"}
        /\ SubSeq(text, h + 1, h + Len(first)) = first
        /\ text[h + Len(first) + 1] \in {" Atto-FLOW\n", " Wei\n"}
        /\ SubSeq(text, h + Len(first) + 2, Len(text) - 1) = second
        /\ text[Len(text)] \in {" FLOW", " ETH", " Gwei"}

\* C10: the result 0x0 is shown as 0 and 0.000000 by the balance tools and
\* as 0 and 0.00 by the gas price tools; the balance 0xde0b6b3a7640000 is
\* shown as 1000000000000000000 and 1.000000.
C10_BoundaryAmounts ==
    \A i \in Slots :
        /\ GotQuantity(i, TRUE, <<"0", "x", "0">>) =>
                /\ Succeeded(i)
                /\ Amounts(ResultText(i), <<"0">>, <<"0", ".", "0", "0", "0", "0", "0", "0">>)
        /\ GotQuantity(i, FALSE, <<"0", "x", "0">>) =>
                /\ Succeeded(i)
                /\ Amounts(ResultText(i), <<"0">>, <<"0", ".", "0", "0">>)
        /\ GotQuantity(i, TRUE, <<"0", "x", "d", "e", "0", "b", "6", "b", "3", "a", "7",
                                  "6", "4", "0", "0", "0", "0">>) =>
                /\ Succeeded(i)
                /\ Amounts(ResultText(i),
                           <<"1", "0", "0", "0", "0", "0", "0", "0", "0", "0", "0", "0",
                             "0", "0", "0", "0", "0", "0", "0">>,
                           <<"1", ".", "0", "0", "0", "0", "0", "0">>)

\* flow_getBalance was answered with 10^18 and showed one FLOW.
C10_Witness ==
    \E i \in Slots :
        /\ GotQuantity(i, TRUE, <<"0", "x", "d", "e", "0", "b", "6", "b", "3", "a", "7",
                                  "6", "4", "0", "0", "0", "0">>)
        /\ inv[i].tool = "flow_getBalance"
        /\ Succeeded(i)
        /\ Contains(ResultText(i),
                    <<" Atto-FLOW\n", "1", ".", "0", "0", "0", "0", "0", "0", " FLOW">>)

\* Call i was a query for a quantity (chain id, gas price, balance, block
\* number) whose response carried the hex string q as result and no error.
GotHex(i, q) ==
    /\ Settled(i) /\ Answered(i)
    /\ inv[i].tool \in {"flow_chainId", "flow_blockNumber", "flow_gasPrice",
                        "eth_gasPrice", "flow_getBalance", "eth_getBalance"}
    /\ ~Truthy(Field(inv[i].http.data, "error"))
    /\ Field(inv[i].http.data, "result") = JStr(q)

\* The unsigned integer a 0x-prefixed hex string denotes, in decimal digits.
ExactDecimal(q) ==
    DigitText(NatOfBits(StripZeroBits(BitsOfHex(SubSeq(q, 3, Len(q)))), 0))

\* The k-th place of the text where the token stands.
Place(text, token, k) ==
    CHOOSE p \in 1..Len(text) :
        text[p] = token /\ Cardinality({r \in 1..p : text[r] = token}) = k

\* The decimal number a quantity text shows: what follows "Decimal: ", or
\* what stands between the heading and the first unit.
Decimal(text) ==
    IF \E p \in 1..Len(text) : text[p] = "\nDecimal: "
    THEN SubSeq(text, Place(text, "\nDecimal: ", 1) + 1, Len(text))
    ELSE LET h == CHOOSE p \in 1..Len(text) : text[p] \in {":\n", "Current Gas Price:\n"}
             u == CHOOSE p \in 1..Len(text) : text[p] \in {" Atto-FLOW\n", " Wei\n"}
         IN  SubSeq(text, h + 1, u - 1)

\* The block number the k-th entry of a log listing shows.
LogBlockNumber(text, k) ==
    SubSeq(text, Place(text, "\n  Block Number: ", k) + 1,
           Place(text, "\n  Transaction Hash: ", k) - 1)

\* C11: the decimal number shown for a hex quantity the node returned (a
\* balance, a gas price, a chain id, a block number, the block number of a
\* log) is the unsigned integer the hex string denotes, up to 256 bits.
C11_DecimalIsExact ==
    \A i \in Slots :
        /\ \A q \in Quantities :
                GotHex(i, q) =>
                    Succeeded(i) /\ Decimal(ResultText(i)) = ExactDecimal(q)
        /\ \A logs \in SeqsUpTo(Logs, MaxLogs) \ {<<>>} :
                GotLogs(i, logs) =>
                    \A k \in 1..Len(logs) :
                        LogBlockNumber(ResultText(i), k) =
                            ExactDecimal(Field(logs[k], "blockNumber").str)

\* flow_getBalance was answered with 2^53 + 1 and showed 2^53.
C11_Witness ==
    \E i \in Slots :
        /\ GotHex(i, <<"0", "x", "2", "0", "0", "0", "0", "0", "0", "0", "0", "0", "0",
                       "0", "0", "1">>)
        /\ inv[i].tool = "flow_getBalance"
        /\ Succeeded(i)
        /\ ExactDecimal(<<"0", "x", "2", "0", "0", "0", "0", "0", "0", "0", "0", "0", "0",
                          "0", "0", "1">>) =
                <<"9", "0", "0", "7", "1", "9", "9", "2", "5", "4", "7", "4", "0", "9",
                  "9", "3">>
        /\ Decimal(ResultText(i)) =
                <<"9", "0", "0", "7", "1", "9", "9", "2", "5", "4", "7", "4", "0", "9",
                  "9", "2">>

\* The method the tool surface names for a tool, by the tool's name without
\* its flow_ or eth_ prefix; "none" for a tool it does not name.
SurfaceMethod(tool) ==
    CASE tool \in {"flow_getCode", "eth_getCode"} -> "eth_getCode"
      [] tool = "flow_chainId" -> "eth_chainId"
      [] tool \in {"flow_gasPrice", "eth_gasPrice"} -> "eth_gasPrice"
      [] tool \in {"flow_getBalance", "eth_getBalance"} -> "eth_getBalance"
      [] tool \in {"flow_call", "eth_call"} -> "eth_call"
      [] tool \in {"flow_getLogs", "eth_getLogs"} -> "eth_getLogs"
      [] tool = "flow_sendRawTransaction" -> "eth_sendRawTransaction"
      [] tool = "flow_blockNumber" -> "eth_blockNumber"
      [] OTHER -> "none"

\* The validated arguments in the order the method expects.
SurfaceParams(method, args) ==
    CASE method \in {"eth_getCode", "eth_getBalance"} ->
            <<Field(args, "address"), Field(args, "blockParameter")>>
      [] method = "eth_call" -> <<Field(args, "transaction"), Field(args, "blockParameter")>>
      [] method = "eth_getLogs" -> <<Field(args, "filter")>>
      [] method = "eth_sendRawTransaction" -> <<Field(args, "signedTransactionData")>>
      [] method = "eth_sendTransaction" -> <<Field(args, "transaction")>>
      [] OTHER -> <<>>

\* The requests posted for call i are one request of the given method, with
\* jsonrpc "2.0", id 1 and the validated arguments in their order, "latest"
\* standing where the caller left the block parameter out.
PostedAs(i, method) ==
    /\ Len(wire[i]) = 1
    /\ DOMAIN wire[i][1].body = {"jsonrpc", "id", "method", "params"}
    /\ wire[i][1].body.jsonrpc = "2.0"
    /\ wire[i][1].body.id = 1
    /\ wire[i][1].body.method = method
    /\ inv[i].args = Validate(inv[i].tool, inv[i].raw).data
    /\ wire[i][1].body.params = SurfaceParams(method, inv[i].args)
    /\ (method \in {"eth_getCode", "eth_getBalance", "eth_call"}
            /\ "blockParameter" \notin DOMAIN inv[i].raw.obj) =>
                wire[i][1].body.params[2] = JStr(<<"latest">>)

\* C12 as stated: every request posted is the request of one of the eight
\* named methods, that of the tool called; the local tools post nothing.
C12_RequestShape ==
    \A i \in Slots :
        /\ wire[i] # <<>> =>
                /\ SurfaceMethod(inv[i].tool) # "none"
                /\ PostedAs(i, SurfaceMethod(inv[i].tool))
        /\ (inv[i].st # "idle" /\ inv[i].tool \in {"flow_getNetworkInfo", "flow_checkCOA"}) =>
                wire[i] = <<>>

\* The same with eth_sendTransaction counted as a ninth tool, which posts the
\* method eth_sendTransaction with the one parameter [transaction].
RequestShapeWithSendTransaction ==
    \A i \in Slots :
        /\ wire[i] # <<>> =>
                IF inv[i].tool = "eth_sendTransaction"
                THEN PostedAs(i, "eth_sendTransaction")
                ELSE /\ SurfaceMethod(inv[i].tool) # "none"
                     /\ PostedAs(i, SurfaceMethod(inv[i].tool))
        /\ (inv[i].st # "idle" /\ inv[i].tool \in {"flow_getNetworkInfo", "flow_checkCOA"}) =>
                wire[i] = <<>>

\* An eth_sendTransaction is in flight: its request has the method
\* eth_sendTransaction, which is none of the eight, and carries the
\* transaction alone.
C12_Witness ==
    \E i \in Slots :
        /\ inv[i].st = "pending"
        /\ inv[i].tool = "eth_sendTransaction"
        /\ SurfaceMethod(inv[i].tool) = "none"
        /\ PostedAs(i, "eth_sendTransaction")
        /\ wire[i][1].body.params = <<Field(inv[i].args, "transaction")>>

\* A block designator: one of the three tags or a 0x-prefixed hex quantity.
IsBlockDesignator(v) ==
    /\ IsStr(v)
    /\ \/ v.str \in {<<"latest">>, <<"earliest">>, <<"pending">>}
       \/ IsHexPlus(v.str)

\* Whether a tool takes a blockParameter, and whether it takes a filter.
TakesBlockParameter(tool) ==
    tool \in {"flow_getCode", "eth_getCode", "flow_getBalance", "eth_getBalance",
              "flow_call", "eth_call"}

TakesFilter(tool) == tool \in {"flow_getLogs", "eth_getLogs"}

\* The fromBlock and toBlock a filter object carries.
FilterBlocks(filter) ==
    IF IsObj(filter)
    THEN {filter.obj[k] : k \in {"fromBlock", "toBlock"} \cap DOMAIN filter.obj}
    ELSE {}

\* The block designators the caller supplied in a bundle.
SuppliedBlocks(tool, raw) ==
    IF TakesBlockParameter(tool)
    THEN {raw.obj[k] : k \in {"blockParameter"} \cap DOMAIN raw.obj}
    ELSE IF TakesFilter(tool) THEN FilterBlocks(Field(raw, "filter"))
    ELSE {}

\* The bundle without the block designators it carries.
Less(o, keys) == JObj([k \in DOMAIN o.obj \ keys |-> o.obj[k]])

WithoutBlocks(tool, raw) ==
    IF TakesBlockParameter(tool) THEN Less(raw, {"blockParameter"})
    ELSE IF TakesFilter(tool) /\ IsObj(Field(raw, "filter"))
    THEN JObj([k \in DOMAIN raw.obj |->
                IF k = "filter" THEN Less(raw.obj[k], {"fromBlock", "toBlock"})
                ELSE raw.obj[k]])
    ELSE raw

\* The block designators in the request posted for call i.
SentBlocks(i) ==
    IF wire[i] = <<>> THEN {}
    ELSE IF TakesBlockParameter(inv[i].tool) THEN {wire[i][1].body.params[2]}
    ELSE IF TakesFilter(inv[i].tool) THEN FilterBlocks(wire[i][1].body.params[1])
    ELSE {}

\* C13: a bundle whose other arguments are valid is accepted exactly when the
\* block designators it supplies are "latest", "earliest", "pending" or
\* 0x-prefixed hex, and every block designator in a posted request is one of
\* those.
C13_BlockDesignatorsChecked ==
    \A i \in Slots :
        inv[i].st # "idle" =>
            /\ Validate(inv[i].tool, WithoutBlocks(inv[i].tool, inv[i].raw)).ok =>
                    (Validate(inv[i].tool, inv[i].raw).ok <=>
                        \A b \in SuppliedBlocks(inv[i].tool, inv[i].raw) :
                            IsBlockDesignator(b))
            /\ \A b \in SentBlocks(i) : IsBlockDesignator(b)

\* A flow_getCode with the blockParameter "banana" was accepted and its
\* request, with "banana" in the second position, is in flight.
C13_Witness ==
    \E i \in Slots :
        /\ inv[i].st = "pending"
        /\ inv[i].tool = "flow_getCode"
        /\ SuppliedBlocks(inv[i].tool, inv[i].raw) = {JStr(<<"banana">>)}
        /\ ~IsBlockDesignator(JStr(<<"banana">>))
        /\ wire[i][1].body.method = "eth_getCode"
        /\ wire[i][1].body.params[2] = JStr(<<"banana">>)

\* Call i once its makeRpcCall has run on from the outcome h of a POST.
ReturnedWith(i, h) ==
    [st |-> "returned", tool |-> inv[i].tool, raw |-> inv[i].raw, args |-> inv[i].args,
     http |-> h, rpc |-> MakeRpcCall(h)]

\* What the handler of call i returns from its own arguments and the outcome
\* h of a POST.
OutcomeWith(i, h) ==
    Ended(inv[i].tool, inv[i].raw, inv[i].args, h,
          HandlerResume(inv[i].tool, inv[i].args, MakeRpcCall(h)))

\* Call i is over: rejected, returned or thrown.
Over(i) == inv[i].st \in {"rejected", "done", "threw"}

\* C14: with several calls in flight and their responses arriving in any
\* order, a step of one call leaves every other call and its request as they
\* were; a call that runs on, in makeRpcCall and then in its handler, takes
\* the outcome of its own POST, so that calls of the same tool with the same
\* arguments and the same outcome end the same; every request goes to the
\* one configured endpoint with id 1; and the server's registry and network
\* configuration never change.
C14_CallsAreIndependent ==
    /\ [][\A i \in DOMAIN inv :
            /\ (inv'[i] # inv[i] \/ wire'[i] # wire[i]) =>
                    \A j \in DOMAIN inv \ {i} : inv'[j] = inv[j] /\ wire'[j] = wire[j]
            /\ (inv[i].st = "arrived" /\ inv'[i] # inv[i]) =>
                    inv'[i] = ReturnedWith(i, inv[i].http)
            /\ (inv[i].st = "returned" /\ inv'[i] # inv[i]) =>
                    inv'[i] = OutcomeWith(i, inv[i].http)]_vars
    /\ [](\A i, j \in DOMAIN inv :
            (/\ Over(i) /\ Over(j)
             /\ inv[i].tool = inv[j].tool
             /\ inv[i].raw = inv[j].raw
             /\ inv[i].st # "rejected" /\ inv[j].st # "rejected" =>
                    inv[i].http = inv[j].http) =>
                inv[i] = inv[j])
    /\ [](\A i \in DOMAIN inv :
            wire[i] # <<>> =>
                /\ wire[i][1].url = RpcUrl(server)
                /\ wire[i][1].body.id = 1)
    /\ [][server' = server /\ Registry(server') = Registry(server)]_vars

\* Two flow_getCode calls for different addresses, both requests with id 1:
\* the makeRpcCall of the first has ended and its handler has yet to run on,
\* the second has returned the text of its own, different outcome.
C14_Witness ==
    /\ inv[1].st = "returned"
    /\ inv[2].st = "done"
    /\ inv[1].tool = "flow_getCode" /\ inv[2].tool = "flow_getCode"
    /\ inv[1].args # inv[2].args
    /\ wire[1][1].body.id = 1 /\ wire[2][1].body.id = 1
    /\ inv[1].http # inv[2].http
    /\ inv[2] = OutcomeWith(2, inv[2].http)
    /\ inv[2] # OutcomeWith(2, inv[1].http)

\* C15: a call whose POST completed, with a response or a transport failure,
\* returns its result; a pending call changes only by its POST completing, so
\* without an answer it stays pending, whatever the other calls do; a call
\* whose POST completed changes only by its makeRpcCall ending and then by
\* its handler returning, and a returned result stays until the host calls
\* again; flow_getNetworkInfo and flow_checkCOA post nothing and are over in
\* the step that calls them.
C15_ReturnsIffPostCompletes ==
    /\ \A i \in 1..MaxInFlight : (inv[i].st = "arrived") ~> (inv[i].st = "done")
    /\ [][\A i \in DOMAIN inv :
            /\ inv[i].st = "pending" => (inv'[i] = inv[i] \/ inv'[i].st = "arrived")
            /\ inv[i].st = "arrived" =>
                    (inv'[i] = inv[i] \/ inv'[i] = ReturnedWith(i, inv[i].http))
            /\ inv[i].st = "returned" =>
                    (inv'[i] = inv[i] \/ inv'[i] = OutcomeWith(i, inv[i].http))
            /\ inv[i].st = "done" => (inv'[i] = inv[i] \/ calls' = calls + 1)
            /\ (inv'[i].st = "done" /\ inv[i].st # "done" /\ calls' = calls) =>
                    inv[i].st = "returned"
            /\ (calls' = calls + 1 /\ inv'[i] # inv[i] /\ inv'[i].tool \in LocalTools) =>
                    /\ inv'[i].st \in {"rejected", "done", "threw"}
                    /\ wire'[i] = <<>>
                    /\ posts' = posts]_vars
    /\ [](\A i \in DOMAIN inv :
            inv[i].st \in {"pending", "arrived", "returned"} =>
                inv[i].tool \notin LocalTools)

\* The first call is still pending, its POST unanswered, while the second,
\* whose POST failed in the transport, has returned its failure; likewise a
\* flow_checkCOA would have returned.
C15_Witness ==
    /\ inv[1].st = "pending"
    /\ wire[1] # <<>>
    /\ inv[2].st = "done"
    /\ inv[2].tool \notin LocalTools
    /\ IsFail(inv[2].http)
    /\ inv[2] = OutcomeWith(2, inv[2].http)

====
